---- MODULE Spec2Model ----
(***************************************************************************)
(* Model of the generation / publish pipeline of the POD Shopify app:      *)
(*   - retryWithBackoff and the Shopify publish attempt it wraps           *)
(*     (backend/src/utils/retry.js, ShopifyPublishService.publish),        *)
(*   - the image provider waterfall and the KIE poll loop                  *)
(*     (PodPipelineService.generateDesignImage / requestKieImage),         *)
(*   - the lifestyle step of finalize (generateLifestyleImages + step 1b), *)
(*   - the pod routes over the shared store (design-preview,               *)
(*     generate-mockup, revise-design, finalize-product, retry-publish).   *)
(* Each part has its own variables and its own specification; a part's     *)
(* actions leave the other parts' variables unchanged.                     *)
(***************************************************************************)
EXTENDS Integers, Sequences, FiniteSets, TLC

VARIABLES
    \* ---- retryWithBackoff / publish attempt ----
    caller,         \* who called retryWithBackoff: "publish" or "generic"
    maxRetries,     \* opts.maxRetries
    baseDelayMs,    \* opts.baseDelayMs
    customPredicate,\* TRUE when opts.shouldRetry is a caller-supplied predicate
    attempt,        \* the loop variable of retryWithBackoff
    lastError,      \* the error caught last (NoError before any)
    rpc,            \* "idle" | "entry" | "mock" | "loop" | "returned" | "threw" |
                    \* "direct" | "directReturned" | "directThrew"
    fnCalls,        \* number of invocations of fn so far
    okCalls,        \* invocations of fn that returned a value
    slept,          \* the last backoff sleep: [k |-> attempt, ms |-> delay], or NoSleep
    sleeps,         \* number of backoff sleeps so far
    retriedCause,   \* the cause of the error retried last, or NoCause
    productsCreated,\* products created on the shop by the attempts so far
    tokens,         \* the access tokens publish can find: [shop, env]
    publishResult,  \* what publish returned: [productId, adminUrl], or NoPublish
    publishFile,    \* which ShopifyPublishService the server loaded
    accessToken,    \* the token publish resolved ("" before the lookup and if none)
    publishImages,  \* the imageUrls argument of publish, in list order
    attemptCalls,   \* the Shopify requests of the fn call made last, in order
    \* ---- generateDesignImage / requestKieImage ----
    dInput,         \* the arguments of generateDesignImage
    dpc,            \* "idle" | "openai" | "openai_generate" | "kie" | "kie_poll" | "done"
    requests,       \* provider requests made so far, in order (status polls counted apart)
    openAiImageUrl, \* TRUE once an OpenAI call returned an image reference
    pollAttempt,    \* the loop variable of the poll loop
    statusCalls,    \* status requests made by the poll loop
    allPending,     \* TRUE while every status response was a pending one
    kieOutcome,     \* how requestKieImage ended: "none" | "image" | "failed" | "timedout"
    dResult,        \* what generateDesignImage returned, or NoResult
    trackCalls,     \* the _trackCost calls made so far: [provider, model, operation]
    kieLast,        \* the status response the poll loop read last, or NoStatus
    \* ---- finalize-product, steps 1 and 1b (lifestyle images) ----
    scenario,       \* the prompts, keys and provider outcomes of one finalize request
    lpc,            \* "idle" | "run" | "done"
    lifestyle,      \* what steps 1 and 1b leave: [fatal, imageUrls, provider] and the
                    \* prompts sent to KIE and to the OpenAI sweep, or NoLifestyle
    \* ---- generateListingCopy ----
    copyInput,      \* the arguments of generateListingCopy and what the provider answers
    cpc,            \* "idle" | "run" | "done"
    copyResult,     \* what generateListingCopy returned, or NoCopy
    \* ---- the provider choice of generate-mockup ----
    mockupInput,    \* the saved and environment Printful keys, the artwork, the product type
    mpc,            \* "idle" | "route" | "printful" | "ai" | "done"
    mockupCalls,    \* the provider calls made so far, in order: "printful", "ai"
    printfulResult, \* what generateMockup returned, or NoPrintful
    mockupResp,     \* the response: [status, provider], or NoMockupResp
    \* ---- the shop's data: shop/redact webhook, /set-shopify-token ----
    shopRecords,    \* by shop: has the store a design, an asset, a product record of
                    \* the shop, and its settings entry's shopifyAccessToken
    webhookFile,    \* which createWebhookRouter the server loaded
    setupSecret,    \* config.dev.setupSecret
    lastCall,       \* the request handled last and its answer, or NoCall
    \* ---- PostgresStore ----
    cache,          \* this._cache: the state written last (0: the state loaded by _init)
    dbRow,          \* the data column of the app_data row
    persists,       \* the UPDATE queries issued so far, in issue order:
                    \* [data, by, state], state "sent" | "done" | "failed"
    writeCount,     \* write() calls so far
    lastRead,       \* what read() returned last and after which write, or NoRead
    \* ---- the pod routes over the store ----
    overlap,        \* TRUE when a request may start while another is in flight
    designs,        \* db.designs, by design id (NoDesign: no such record)
    assets,         \* db.assets, in insertion order
    products,       \* db.products, in insertion order
    req,            \* the request handlers: position, local variables, response
    started,        \* requests started so far
    designSerial,   \* design records created so far
    assetSerial,    \* asset records created so far
    productSerial,  \* products the publish service has returned so far
    publishCalls,   \* publishService.publish calls, by design
    publishReturned \* publishService.publish calls that returned a product, by design

retryVars == <<caller, maxRetries, baseDelayMs, customPredicate, attempt, lastError,
               rpc, fnCalls, okCalls, slept, sleeps, retriedCause, productsCreated,
               tokens, publishResult,
                   publishFile, accessToken, publishImages, attemptCalls>>

imageVars == <<dInput, dpc, requests, openAiImageUrl, pollAttempt, statusCalls,
               allPending, kieOutcome, dResult,
              trackCalls, kieLast>>

lifestyleVars == <<scenario, lpc, lifestyle>>

copyVars == <<copyInput, cpc, copyResult>>

mockupVars == <<mockupInput, mpc, mockupCalls, printfulResult, mockupResp>>

shopVars == <<shopRecords, webhookFile, setupSecret, lastCall>>

pgVars == <<cache, dbRow, persists, writeCount, lastRead>>

routeVars == <<overlap, designs, assets, products, req, started, designSerial,
               assetSerial, productSerial, publishCalls, publishReturned>>

vars ==
    <<retryVars, imageVars, lifestyleVars, copyVars, mockupVars, shopVars, pgVars, routeVars>>

notRetryVars ==
    <<imageVars, lifestyleVars, copyVars, mockupVars, shopVars, pgVars, routeVars>>
notImageVars ==
    <<retryVars, lifestyleVars, copyVars, mockupVars, shopVars, pgVars, routeVars>>
notLifestyleVars ==
    <<retryVars, imageVars, copyVars, mockupVars, shopVars, pgVars, routeVars>>
notCopyVars ==
    <<retryVars, imageVars, lifestyleVars, mockupVars, shopVars, pgVars, routeVars>>
notMockupVars ==
    <<retryVars, imageVars, lifestyleVars, copyVars, shopVars, pgVars, routeVars>>
notShopVars ==
    <<retryVars, imageVars, lifestyleVars, copyVars, mockupVars, pgVars, routeVars>>
notPgVars ==
    <<retryVars, imageVars, lifestyleVars, copyVars, mockupVars, shopVars, routeVars>>
notRouteVars ==
    <<retryVars, imageVars, lifestyleVars, copyVars, mockupVars, shopVars, pgVars>>

----------------------------------------------------------------------------
(* Bounds of the model *)

\* largest opts.maxRetries a generic caller passes
MaxRetriesBound == 2

\* largest pollIntervalMs and maxWaitMs a caller passes (besides 0: use the default)
MaxInterval == 3
MaxWait == 4

\* largest number of scene prompts a finalize request carries
MaxScenes == 2

\* requests started in one run of the routes when requests may overlap
MaxRequests == 3

\* requests started in one run of the routes when they are served one at a time
MaxSeqRequests == 4

\* UPDATE queries issued by one run of the PostgresStore (write and flush calls)
MaxQueries == 3


\* ---- program constants ----
DefaultScenes == 3
KieDefaultSleep4oMs == 2500
KieDefaultSleepMs == 2000
KieDefaultWait4oMs == 60000
KieDefaultWaitMs == 45000
DefaultMaxRetries == 3
DefaultBaseDelayMs == 1000
JitterMs == 500
PublishMaxRetries == 2
PublishBaseDelayMs == 1000

----------------------------------------------------------------------------
(* Error values.  A message is a sequence of tokens, the maximal runs of    *)
(* word characters of the text: a word or a number.                         *)

W(s) == [kind |-> "word", s |-> s, n |-> 0]
N(n) == [kind |-> "num", s |-> "", n |-> n]

NoError == [code |-> "", status |-> 0, statusCode |-> 0, message |-> <<>>]
NoCause == [cls |-> "none", status |-> 0]
NoSleep == [k |-> -1, ms |-> 0]

\* new Error(message): no code, no status
MkError(message) == [code |-> "", status |-> 0, statusCode |-> 0, message |-> message]

----------------------------------------------------------------------------
(* retry.js: defaultShouldRetry *)

NetworkCodes == {"ECONNRESET", "ETIMEDOUT", "ENOTFOUND"}

\* /\b429\b/.test(msg)
Matches429(msg) == \E i \in 1..Len(msg) : msg[i].kind = "num" /\ msg[i].n = 429

\* /\b5\d{2}\b/.test(msg)
Matches5xx(msg) ==
    \E i \in 1..Len(msg) : msg[i].kind = "num" /\ msg[i].n >= 500 /\ msg[i].n <= 599

\* /rate.?limit/i.test(msg)   (words are kept in lower case)
MatchesRateLimit(msg) ==
    \/ \E i \in 1..Len(msg) : msg[i].kind = "word" /\ msg[i].s \in {"ratelimit", "rate_limit"}
    \/ \E i \in 1..(Len(msg) - 1) :
          /\ msg[i].kind = "word" /\ msg[i].s = "rate"
          /\ msg[i + 1].kind = "word" /\ msg[i + 1].s = "limit"

defaultShouldRetry(err) ==
    IF err.code \in NetworkCodes THEN TRUE
    ELSE LET status == IF err.status # 0 THEN err.status ELSE err.statusCode
         IN  IF status = 429 \/ (status >= 500 /\ status <= 599) THEN TRUE
             ELSE Matches429(err.message) \/ Matches5xx(err.message)
                  \/ MatchesRateLimit(err.message)

----------------------------------------------------------------------------
(* ShopifyPublishService: one attempt of the function publish hands to      *)
(* retryWithBackoff: GraphQL productCreate, then REST create or attach.     *)

\* what the GraphQL productCreate call ends in: a product id, a payload without
\* product, !response.ok, payload.errors, userErrors, a rejected fetch; every
\* error is caught
GqlOutcomes == {"product", "noproduct", "http", "errors", "userErrors", "network"}

\* the imageUrls argument: no image, the design image, the design image and a
\* lifestyle image
ImageLists == { <<>>, << "design" >>, << "design", "lifestyle" >> }

\* what one image attachment request ends in: 2xx, !response.ok, a rejected fetch
AttachOutcomes == {"ok", "http", "exception"}

\* a request to the shop: the interface, the images it carries, how it ended
ShopifyCall(api, images, outcome) == [api |-> api, images |-> images, outcome |-> outcome]

RestStatuses == {401, 422, 429, 503}

\* response bodies of a failed REST create, as tokens
RestBodies ==
    { <<>>,
      << W("title"), W("is"), W("too"), W("long"), W("maximum"), N(500), W("characters") >>,
      << W("exceeded"), W("rate"), W("limit") >> }

\* _createProductREST: what the REST create call ends in
RestOutcomes ==
    { [kind |-> "product", status |-> 200, body |-> <<>>, code |-> ""] }
    \cup { [kind |-> "http", status |-> st, body |-> b, code |-> ""] :
              st \in RestStatuses, b \in RestBodies }
    \cup { [kind |-> "network", status |-> 0, body |-> <<>>, code |-> c] :
              c \in {"", "ECONNRESET"} }
    \cup { [kind |-> "noproduct", status |-> 200, body |-> <<>>, code |-> ""] }

\* the error _createProductREST throws (or fetch throws inside it)
createProductRESTError(rest) ==
    CASE rest.kind = "http" ->
            MkError(<< W("shopify"), W("rest"), W("product"), W("create"), W("failed"),
                       N(rest.status) >> \o rest.body)
      [] rest.kind = "network" ->
            [MkError(<< W("fetch"), W("failed") >>) EXCEPT !.code = rest.code]
      [] OTHER ->
            MkError(<< W("shopify"), W("rest"), W("create"), W("returned"), W("no"),
                       W("product") >>)

\* why the attempt failed, whatever the error says
RestCause(rest) ==
    CASE rest.kind = "http" -> [cls |-> "http", status |-> rest.status]
      [] rest.kind = "network" -> [cls |-> "network", status |-> 0]
      [] OTHER -> [cls |-> "invalid", status |-> 0]

\* a publish that creates by REST whatever GraphQL gave
CallsRestAlways(gql) == TRUE

\* the REST create is called only when GraphQL gave no product id
CallsRest(gql) == gql # "product"

\* an attachment loop that ends at the first failed request
attachImagesRESTStopsAtFailure(imageUrls, attach) ==
    LET failed == { i \in 1..Len(imageUrls) : attach[i] # "ok" }
        last == IF failed = {} THEN Len(imageUrls)
                ELSE CHOOSE i \in failed : \A j \in failed : i <= j
    IN [i \in 1..last |-> ShopifyCall("rest-image", << imageUrls[i] >>, attach[i])]

\* _attachImagesREST: one request per image, in list order, errors logged
attachImagesREST(imageUrls, attach) ==
    [i \in 1..Len(imageUrls) |-> ShopifyCall("rest-image", << imageUrls[i] >>, attach[i])]

\* an attempt that throws when an attachment request failed
PublishAttemptAttachThrows(gql, rest, imageUrls, attach) ==
    LET graphql == ShopifyCall("graphql", <<>>, gql)
        create == ShopifyCall("rest-create", imageUrls, rest.kind)
    IN  IF gql = "product"
        THEN IF \E i \in 1..Len(imageUrls) : attach[i] # "ok"
             THEN [ok |-> FALSE,
                   err |-> MkError(<< W("image"), W("attach"), W("failed"), N(503) >>),
                   cause |-> [cls |-> "http", status |-> 503], created |-> 1,
                   calls |-> << graphql >> \o attachImagesRESTStopsAtFailure(imageUrls, attach)]
             ELSE [ok |-> TRUE, err |-> NoError, cause |-> NoCause, created |-> 1,
                   calls |-> << graphql >> \o attachImagesREST(imageUrls, attach)]
        ELSE IF rest.kind = "product"
             THEN [ok |-> TRUE, err |-> NoError, cause |-> NoCause, created |-> 1,
                   calls |-> << graphql, create >>]
             ELSE [ok |-> FALSE, err |-> createProductRESTError(rest),
                   cause |-> RestCause(rest), created |-> 0,
                   calls |-> << graphql, create >>]

\* one attempt: [ok, err, cause, created, calls].  imageUrls is the list publish
\* was given, attach what each attachment request ends in
PublishAttempt(gql, rest, imageUrls, attach) ==
    LET graphql == ShopifyCall("graphql", <<>>, gql)
    IN  IF ~CallsRest(gql)
        THEN [ok |-> TRUE, err |-> NoError, cause |-> NoCause, created |-> 1,
              calls |-> << graphql >> \o attachImagesREST(imageUrls, attach)]
        ELSE LET create == ShopifyCall("rest-create", imageUrls, rest.kind)
                 before == IF gql = "product" THEN 1 ELSE 0
             IN  IF rest.kind = "product"
                 THEN [ok |-> TRUE, err |-> NoError, cause |-> NoCause,
                       created |-> before + 1, calls |-> << graphql, create >>]
                 ELSE [ok |-> FALSE, err |-> createProductRESTError(rest),
                       cause |-> RestCause(rest), created |-> before,
                       calls |-> << graphql, create >>]

\* the attempts there are: the REST create answers only when it is called, the
\* attachment requests only when it is not
PublishAttemptOutcomes(imageUrls) ==
    UNION { { PublishAttempt(g, r, imageUrls, a) :
                 r \in IF CallsRest(g) THEN RestOutcomes
                       ELSE { rr \in RestOutcomes : rr.kind = "product" },
                 a \in IF CallsRest(g) THEN { [i \in 1..Len(imageUrls) |-> "ok"] }
                       ELSE [1..Len(imageUrls) -> AttachOutcomes] } :
            g \in GqlOutcomes }

\* what a generic wrapped function ends in
GenericOutcomes ==
    { [ok |-> TRUE, err |-> NoError, cause |-> NoCause, created |-> 0, calls |-> <<>>] }
    \cup { [ok |-> FALSE, err |-> e, cause |-> [cls |-> "generic", status |-> 0], created |-> 0,
            calls |-> <<>>] :
              e \in { MkError(<< W("boom") >>),
                      [MkError(<< W("reset") >>) EXCEPT !.code = "ETIMEDOUT"],
                      [MkError(<< W("unavailable") >>) EXCEPT !.status = 503],
                      [MkError(<< W("bad"), W("request") >>) EXCEPT !.statusCode = 400] } }

FnOutcomes(who) ==
    IF who = "publish" THEN PublishAttemptOutcomes(publishImages) ELSE GenericOutcomes

----------------------------------------------------------------------------
(* retry.js: retryWithBackoff *)

RECURSIVE Pow2(_)
Pow2(k) == IF k <= 0 THEN 1 ELSE 2 * Pow2(k - 1)

\* floor of Math.random() * 500, sampled
Jitters == {0, JitterMs \div 2, JitterMs - 1}

BaseDelays == {1, DefaultBaseDelayMs}

\* for (...; attempt <= maxRetries; ...)
LoopCond(a, m) == a <= m

\* a loop that forgets to advance the attempt counter
NextAttemptStuck(a) == a

\* attempt++
NextAttempt(a) == a + 1

\* if (attempt >= maxRetries || !shouldRetry(err, attempt)) throw err
GivesUp(a, m, retryable) == a >= m \/ ~retryable

\* an exponent that is one too large
BackoffDelayOffByOne(base, a, jitter) == base * Pow2(a + 1) + jitter

\* baseDelayMs * Math.pow(2, attempt) + Math.random() * 500
BackoffDelay(base, a, jitter) == base * Pow2(a) + jitter

\* the access tokens of one publish call: the shop's stored settings hold none
\* (no settings record or no shopifyAccessToken), an empty one or a token; the
\* environment holds an empty one or a token
Tokens == [shop : {"none", "", "shpat_shop"}, env : {"", "shpat_env"}]

NoTokens == [shop |-> "none", env |-> ""]

NoPublish == [productId |-> "none", adminUrl |-> "none"]

\* gid://shopify/Product/mock-<time> and the shop's admin products page
MockProduct == [productId |-> "mock", adminUrl |-> "products"]

\* the id of the created product and its admin page
CreatedProduct == [productId |-> "product", adminUrl |-> "products/id"]

\* a lookup that insists on a token
getAccessTokenOrPlaceholder(t) ==
    IF t.shop \notin {"none", ""} THEN t.shop
    ELSE IF t.env # "" THEN t.env ELSE "missing"

\* ShopifyPublishService._getAccessToken
getAccessToken(t) == IF t.shop \notin {"none", ""} THEN t.shop ELSE t.env

\* the repository holds two ShopifyPublishService classes: the one of part_002,
\* which looks the shop's stored token up first, and the one of
\* services/shopifyPublishService.js (the path server.js requires), which reads
\* config.shopify.adminAccessToken only and posts one productCreate request
PublishFiles == {"part_002", "shopifyPublishService.js"}

\* const accessToken = ... at the top of publish
resolveAccessToken(file, t) ==
    IF file = "part_002" THEN getAccessToken(t) ELSE t.env

\* the publish calls looked at: every token setting with the design image alone,
\* every image list with a stored shop token
PublishInputs ==
    { <<t, << "design" >> >> : t \in Tokens }
    \cup { <<t, images>> : t \in { tt \in Tokens : tt.shop = "shpat_shop" /\ tt.env = "" },
                          images \in ImageLists }

RetryStart ==
    /\ caller \in {"publish", "generic"}
    /\ IF caller = "publish"
       THEN /\ maxRetries = PublishMaxRetries
            /\ baseDelayMs = PublishBaseDelayMs
            /\ customPredicate = FALSE
            /\ \E in \in PublishInputs : tokens = in[1] /\ publishImages = in[2]
            /\ publishFile \in PublishFiles
            /\ rpc = "entry"
       ELSE /\ maxRetries \in (-1..MaxRetriesBound) \cup {DefaultMaxRetries}
            /\ baseDelayMs \in BaseDelays
            /\ customPredicate \in BOOLEAN
            /\ tokens = NoTokens
            /\ publishFile = "part_002"
            /\ publishImages = <<>>
            /\ rpc = "loop"
    /\ publishResult = NoPublish
    /\ attemptCalls = <<>>
    /\ accessToken = ""
    /\ attempt = 0
    /\ lastError = NoError
    /\ fnCalls = 0
    /\ okCalls = 0
    /\ slept = NoSleep
    /\ sleeps = 0
    /\ retriedCause = NoCause
    /\ productsCreated = 0

RetryIdle ==
    /\ caller = "generic"
    /\ maxRetries = DefaultMaxRetries
    /\ baseDelayMs = DefaultBaseDelayMs
    /\ customPredicate = FALSE
    /\ tokens = NoTokens
    /\ publishResult = NoPublish
    /\ publishFile = "part_002"
    /\ accessToken = ""
    /\ publishImages = <<>>
    /\ attemptCalls = <<>>
    /\ attempt = 0
    /\ lastError = NoError
    /\ rpc = "idle"
    /\ fnCalls = 0
    /\ okCalls = 0
    /\ slept = NoSleep
    /\ sleeps = 0
    /\ retriedCause = NoCause
    /\ productsCreated = 0

\* publish up to the retryWithBackoff call: without an access token it returns
\* the mock product at once
PublishEntry ==
    /\ rpc = "entry"
    /\ accessToken' = resolveAccessToken(publishFile, tokens)
    /\ IF accessToken' = ""
       THEN /\ rpc' = "mock"
            /\ publishResult' = MockProduct
       ELSE /\ rpc' = IF publishFile = "part_002" THEN "loop" ELSE "direct"
            /\ UNCHANGED publishResult
    /\ UNCHANGED <<caller, maxRetries, baseDelayMs, customPredicate, attempt, lastError,
                   fnCalls, okCalls, slept, sleeps, retriedCause, productsCreated, tokens,
                   publishFile, publishImages, attemptCalls>>
    /\ UNCHANGED notRetryVars

\* what the one productCreate request of services/shopifyPublishService.js ends
\* in: a product, or a throw (fetch rejects, !response.ok, userErrors, no id)
DirectOutcomes == {"product", "network", "http", "userErrors", "invalid"}

\* services/shopifyPublishService.js: the request after the token check, a
\* productCreate whose input holds images: imageUrls.map((src) => ({ src }))
PublishDirect ==
    /\ rpc = "direct"
    /\ \E out \in DirectOutcomes :
          /\ attemptCalls' = << ShopifyCall("graphql", publishImages, out) >>
          /\ IF out = "product"
             THEN /\ rpc' = "directReturned"
                  /\ publishResult' = CreatedProduct
                  /\ productsCreated' = productsCreated + 1
             ELSE /\ rpc' = "directThrew"
                  /\ UNCHANGED <<publishResult, productsCreated>>
    /\ UNCHANGED <<caller, maxRetries, baseDelayMs, customPredicate, attempt, lastError,
                   fnCalls, okCalls, slept, sleeps, retriedCause, tokens,
                   publishFile, accessToken, publishImages>>
    /\ UNCHANGED notRetryVars

\* what a caller-supplied shouldRetry may answer (none is asked otherwise)
Answers(custom) == IF custom THEN BOOLEAN ELSE {FALSE}

\* return await fn(attempt)
RetryCallReturns ==
    /\ rpc = "loop"
    /\ LoopCond(attempt, maxRetries)
    /\ \E out \in FnOutcomes(caller) :
          /\ out.ok
          /\ productsCreated' = productsCreated + out.created
          /\ attemptCalls' = out.calls
    /\ fnCalls' = fnCalls + 1
    /\ okCalls' = okCalls + 1
    /\ rpc' = "returned"
    /\ publishResult' = IF caller = "publish" THEN CreatedProduct ELSE publishResult
    /\ UNCHANGED <<caller, maxRetries, baseDelayMs, customPredicate, attempt, lastError,
                   slept, sleeps, retriedCause, tokens,
                   publishFile, accessToken, publishImages>>
    /\ UNCHANGED notRetryVars

\* fn threw and the loop gives up: throw err
RetryCallThrows ==
    /\ rpc = "loop"
    /\ LoopCond(attempt, maxRetries)
    /\ \E out \in FnOutcomes(caller), answer \in Answers(customPredicate) :
          /\ ~out.ok
          /\ GivesUp(attempt, maxRetries,
                     IF customPredicate THEN answer ELSE defaultShouldRetry(out.err))
          /\ lastError' = out.err
          /\ productsCreated' = productsCreated + out.created
          /\ attemptCalls' = out.calls
    /\ fnCalls' = fnCalls + 1
    /\ rpc' = "threw"
    /\ UNCHANGED <<caller, maxRetries, baseDelayMs, customPredicate, attempt, okCalls,
                   slept, sleeps, retriedCause, tokens, publishResult,
                   publishFile, accessToken, publishImages>>
    /\ UNCHANGED notRetryVars

\* fn threw, the error is retried: sleep, then the next iteration
RetryCallRetries ==
    /\ rpc = "loop"
    /\ LoopCond(attempt, maxRetries)
    /\ \E out \in FnOutcomes(caller), answer \in Answers(customPredicate),
          jitter \in Jitters :
          /\ ~out.ok
          /\ ~GivesUp(attempt, maxRetries,
                      IF customPredicate THEN answer ELSE defaultShouldRetry(out.err))
          /\ lastError' = out.err
          /\ retriedCause' = out.cause
          /\ productsCreated' = productsCreated + out.created
          /\ attemptCalls' = out.calls
          /\ slept' = [k |-> attempt, ms |-> BackoffDelay(baseDelayMs, attempt, jitter)]
    /\ sleeps' = sleeps + 1
    /\ fnCalls' = fnCalls + 1
    /\ attempt' = NextAttempt(attempt)
    /\ UNCHANGED <<caller, maxRetries, baseDelayMs, customPredicate, rpc, okCalls,
                   tokens, publishResult,
                   publishFile, accessToken, publishImages>>
    /\ UNCHANGED notRetryVars

\* the loop condition fails: throw lastError
RetryExhausted ==
    /\ rpc = "loop"
    /\ ~LoopCond(attempt, maxRetries)
    /\ rpc' = "threw"
    /\ UNCHANGED <<caller, maxRetries, baseDelayMs, customPredicate, attempt, lastError,
                   fnCalls, okCalls, slept, sleeps, retriedCause, productsCreated,
                   tokens, publishResult,
                   publishFile, accessToken, publishImages, attemptCalls>>
    /\ UNCHANGED notRetryVars

NextRetry ==
    \/ PublishEntry
    \/ PublishDirect
    \/ RetryCallReturns
    \/ RetryCallThrows
    \/ RetryCallRetries
    \/ RetryExhausted

----------------------------------------------------------------------------
(* PodPipelineService: isUsableApiKey, the OpenAI calls, requestKieImage,   *)
(* generateDesignImage.                                                     *)

\* a key is empty, a test key (kei_test_ / openai_test_ prefix) or a live key
KeyKinds == {"empty", "test", "live"}

isUsableApiKey(key) == key # "empty" /\ key # "test"

\* the reference image: none, one the edit call can load, or one it cannot
\* (bad data-URI, missing local file, failed download)
RefKinds == {"none", "url", "unreadable"}

NoResult == [provider |-> "none", image |-> "none", message |-> "none"]

\* HTTP status of an OpenAI image request; 0 is a transport exception
OpenAiStatuses == {0, 200, 400, 403, 404, 429}

\* what a 2xx OpenAI payload carries
OpenAiPayloads == {"url", "b64", "empty"}

\* statuses read as "model unavailable on this account"
DowngradeStatuses == {400, 403, 404}

\* the imageShape values a caller passes: the five names and one that is none of them
Shapes == {"square", "portrait", "landscape", "tall_portrait", "wide_landscape", "circle"}

\* sizeMap[imageShape] || "1024x1024"
getOpenAiSize(imageShape) ==
    CASE imageShape = "square" -> "1024x1024"
      [] imageShape = "portrait" -> "1024x1536"
      [] imageShape = "landscape" -> "1536x1024"
      [] imageShape = "tall_portrait" -> "1024x1536"
      [] imageShape = "wide_landscape" -> "1536x1024"
      [] OTHER -> "1024x1024"

\* a ratio map that gives the tall and wide shapes the ratios of portrait and landscape
getKieAspectRatioCoarse(imageShape) ==
    CASE imageShape = "square" -> "1:1"
      [] imageShape \in {"portrait", "tall_portrait"} -> "3:4"
      [] imageShape \in {"landscape", "wide_landscape"} -> "4:3"
      [] OTHER -> "1:1"

\* ratioMap[imageShape] || "1:1"
getKieAspectRatio(imageShape) ==
    CASE imageShape = "square" -> "1:1"
      [] imageShape = "portrait" -> "3:4"
      [] imageShape = "landscape" -> "4:3"
      [] imageShape = "tall_portrait" -> "2:3"
      [] imageShape = "wide_landscape" -> "3:2"
      [] OTHER -> "1:1"

\* how a request to OpenAI ended, as the code tells the cases apart: the fetch threw,
\* response.ok, a status read as "model unavailable", any other status
Answer(status) ==
    IF status = 0 THEN "exception"
    ELSE IF status = 200 THEN "ok"
    ELSE IF status \in DowngradeStatuses THEN "unavailable" ELSE "error"

\* a call that tries the lower model after any answer that is not a 2xx
OpenAiCallAlwaysDowngrades(op, lowModel, size, s1, s2, payload) ==
    LET first == << [tier |-> "openai", op |-> op, model |-> "gpt-image-1",
                     size |-> size, answer |-> Answer(s1)] >>
        second == << [tier |-> "openai", op |-> op, model |-> lowModel,
                      size |-> size, answer |-> Answer(s2)] >>
    IN  IF s1 = 0 THEN [requests |-> first, image |-> FALSE, tracked |-> "none"]
        ELSE IF s1 = 200
             THEN [requests |-> first, image |-> payload # "empty",
                   tracked |-> "gpt-image-1"]
             ELSE [requests |-> first \o second,
                   image |-> s2 = 200 /\ payload # "empty",
                   tracked |-> IF s2 = 200 THEN lowModel ELSE "none"]

\* generateOpenAiImage / generateOpenAiImageEdit after the key and reference checks:
\* first request with gpt-image-1 (status s1), at most one more with the lower model
\* (status s2); [requests, image, tracked]
OpenAiCall(op, lowModel, size, s1, s2, payload) ==
    LET first == << [tier |-> "openai", op |-> op, model |-> "gpt-image-1",
                     size |-> size, answer |-> Answer(s1)] >>
        second == << [tier |-> "openai", op |-> op, model |-> lowModel,
                      size |-> size, answer |-> Answer(s2)] >>
    IN  IF s1 = 0 THEN [requests |-> first, image |-> FALSE, tracked |-> "none"]
        ELSE IF s1 = 200
             THEN [requests |-> first, image |-> payload # "empty",
                   tracked |-> "gpt-image-1"]
        ELSE IF s1 \in DowngradeStatuses
             THEN [requests |-> first \o second,
                   image |-> s2 = 200 /\ payload # "empty",
                   tracked |-> IF s2 = 200 THEN lowModel ELSE "none"]
             ELSE [requests |-> first, image |-> FALSE, tracked |-> "none"]

generateOpenAiImage(imageShape, s1, s2, payload) ==
    OpenAiCall("generate", "dall-e-3", getOpenAiSize(imageShape), s1, s2, payload)

generateOpenAiImageEdit(ref, imageShape, s1, s2, payload) ==
    IF ref # "url" THEN [requests |-> <<>>, image |-> FALSE, tracked |-> "none"]
    ELSE OpenAiCall("edit", "dall-e-2", getOpenAiSize(imageShape), s1, s2, payload)

\* ---- KIE status payload ----
Absent == [t |-> "absent", s |-> "", n |-> 0]
Str(s) == [t |-> "str", s |-> s, n |-> 0]
Num(n) == [t |-> "num", s |-> "", n |-> n]

NullFlag == -1

RawFlags ==
    { Absent, Str("SUCCESS"), Str("GENERATING"), Str("CREATE_TASK_FAILED"),
      Str("GENERATE_FAILED"), Str("QUEUED"), Num(0), Num(1), Num(2), Num(3), Num(200) }

pickKieSuccessFlag(raw) ==
    IF raw.t = "absent" THEN NullFlag
    ELSE IF raw.t = "str"
         THEN CASE raw.s = "SUCCESS" -> 1
                [] raw.s \in {"GENERATING", "PENDING", "PROCESSING"} -> 0
                [] raw.s = "CREATE_TASK_FAILED" -> 2
                [] raw.s \in {"GENERATE_FAILED", "FAILED", "ERROR"} -> 3
                [] OTHER -> NullFlag
         ELSE raw.n

\* a status response: HTTP ok or not, payload code (0: none), raw flag, image
\* present, errorMessage / error_message / msg present in the payload
StatusResponses ==
    { [ok |-> FALSE, code |-> 0, raw |-> Absent, image |-> FALSE, errorMessage |-> FALSE] }
    \cup { [ok |-> TRUE, code |-> 500, raw |-> Absent, image |-> FALSE, errorMessage |-> m] :
              m \in BOOLEAN }
    \cup { [ok |-> TRUE, code |-> c, raw |-> r, image |-> i,
            errorMessage |-> m /\ pickKieSuccessFlag(r) \in {2, 3}] :
              c \in {0, 200}, r \in RawFlags, i \in BOOLEAN, m \in BOOLEAN }

NoStatus == [ok |-> FALSE, codeError |-> FALSE, successFlag |-> NullFlag,
             image |-> FALSE, errorMessage |-> FALSE]

\* what the loop has in hand of a status response: statusResponse.ok, whether the
\* payload has a code other than 200, successFlag, imageUrl, and whether the payload
\* holds an error message
StatusRead(resp) ==
    [ok |-> resp.ok, codeError |-> resp.code # 0 /\ resp.code # 200,
     successFlag |-> pickKieSuccessFlag(resp.raw),
     image |-> resp.image, errorMessage |-> resp.errorMessage]

\* pickKieErrorMessage
pickKieErrorMessage(payload) ==
    IF payload.errorMessage THEN "provider message" ELSE "KIE reported task failure"

\* a poll step that hands the image out before it looks at the failure flags
PollStepImageFirst(resp) ==
    IF ~resp.ok THEN "failed"
    ELSE IF resp.code # 0 /\ resp.code # 200 THEN "failed"
    ELSE IF resp.image THEN "image"
    ELSE IF pickKieSuccessFlag(resp.raw) \in {2, 3} THEN "failed"
    ELSE "pending"

\* a poll step that accepts a success flag even without an image
PollStepTrustsFlag(resp) ==
    IF ~resp.ok THEN "failed"
    ELSE IF resp.code # 0 /\ resp.code # 200 THEN "failed"
    ELSE LET successFlag == pickKieSuccessFlag(resp.raw)
         IN  IF successFlag = 1 \/ successFlag = 200 THEN "image"
             ELSE IF successFlag = 2 \/ successFlag = 3 THEN "failed"
             ELSE IF resp.image THEN "image"
             ELSE "pending"

\* one iteration of the poll loop on a status response:
\* "image" (return it), "failed" (throw), "pending" (sleep and go on)
PollStep(resp) ==
    IF ~resp.ok THEN "failed"
    ELSE IF resp.code # 0 /\ resp.code # 200 THEN "failed"
    ELSE LET successFlag == pickKieSuccessFlag(resp.raw)
         IN  IF (successFlag = 1 \/ successFlag = 200) /\ resp.image THEN "image"
             ELSE IF successFlag = 2 \/ successFlag = 3 THEN "failed"
             ELSE IF resp.image THEN "image"
             ELSE "pending"

\* the message of the Error a failed poll step throws
PollError(resp) ==
    IF ~resp.ok THEN "KIE status check failed" ELSE pickKieErrorMessage(resp)

\* the accept branch with the _trackCost call: success flag and image
PollTracksCost(resp) ==
    pickKieSuccessFlag(resp.raw) \in {1, 200} /\ resp.image

Max(a, b) == IF a >= b THEN a ELSE b

SleepMs(pollIntervalMs, is4o) ==
    IF pollIntervalMs > 0 THEN pollIntervalMs
    ELSE IF is4o THEN KieDefaultSleep4oMs ELSE KieDefaultSleepMs

WaitMs(maxWaitMs, is4o) ==
    IF maxWaitMs > 0 THEN maxWaitMs
    ELSE IF is4o THEN KieDefaultWait4oMs ELSE KieDefaultWaitMs

\* rounding the number of attempts up instead of down
MaxAttemptsCeil(waitMs, sleepMs) == Max(1, (waitMs + sleepMs - 1) \div sleepMs)

\* Math.max(1, Math.floor(waitMs / sleepMs))
MaxAttempts(waitMs, sleepMs) == Max(1, waitMs \div sleepMs)

\* what the create (submit) request ends in
SubmitOutcomes == {"http-error", "code-error", "direct-image", "no-task", "task"}

\* the <interval, deadline> pairs callers pass; <<0, 0>> selects both defaults
PollTimings ==
    { <<i, d>> : i \in 1..MaxInterval, d \in 1..MaxWait } \cup { <<0, 0>> }

\* the calls the model runs: every key, reference and timing with the square shape
\* (is4o only matters when the defaults are used), and every shape with a poll of
\* one attempt
ImageInputs ==
    { in \in { [openAiApiKey |-> ok, keiAiApiKey |-> kk, referenceImageUrl |-> ref,
                imageShape |-> "square",
                pollIntervalMs |-> t[1], maxWaitMs |-> t[2], is4o |-> f] :
                  ok \in KeyKinds, kk \in KeyKinds, ref \in RefKinds,
                  t \in PollTimings, f \in BOOLEAN } :
        in.pollIntervalMs = 0 \/ in.is4o }
    \cup
    { [openAiApiKey |-> ok, keiAiApiKey |-> kk, referenceImageUrl |-> ref,
       imageShape |-> sh,
       pollIntervalMs |-> 1, maxWaitMs |-> 1, is4o |-> TRUE] :
         ok \in KeyKinds, kk \in KeyKinds, ref \in RefKinds, sh \in Shapes }

ImageStart ==
    /\ dInput \in ImageInputs
    /\ dpc = "openai"
    /\ requests = <<>>
    /\ openAiImageUrl = FALSE
    /\ pollAttempt = 0
    /\ statusCalls = 0
    /\ allPending = TRUE
    /\ kieOutcome = "none"
    /\ dResult = NoResult
    /\ trackCalls = <<>>
    /\ kieLast = NoStatus

ImageIdle ==
    /\ dInput = [openAiApiKey |-> "empty", keiAiApiKey |-> "empty",
                 referenceImageUrl |-> "none", imageShape |-> "square",
                 pollIntervalMs |-> 0, maxWaitMs |-> 0, is4o |-> TRUE]
    /\ dpc = "idle"
    /\ requests = <<>>
    /\ openAiImageUrl = FALSE
    /\ pollAttempt = 0
    /\ statusCalls = 0
    /\ allPending = TRUE
    /\ kieOutcome = "none"
    /\ dResult = NoResult
    /\ trackCalls = <<>>
    /\ kieLast = NoStatus

OpenAiResult == [provider |-> "openai", image |-> "openai", message |-> "live"]

\* this._trackCost({ provider, model, operation }) after an OpenAI call
TrackOpenAi(calls, model, operation) ==
    IF model = "none" THEN calls
    ELSE Append(calls, [provider |-> "openai", model |-> model, operation |-> operation])

\* this._trackCost({ provider: "kie", model: "image", operation: "generate" })
TrackKie(calls) ==
    Append(calls, [provider |-> "kie", model |-> "image", operation |-> "generate"])

\* server.js builds the pipeline service with new PodPipelineService(uploadsDir):
\* nothing sets its analyticsService
AnalyticsServiceSet == FALSE

\* the entries analyticsService.trackApiCall received from _trackCost
costEntries == IF AnalyticsServiceSet THEN trackCalls ELSE <<>>

\* after the edit call: if (!openAiImageUrl) generate
AfterEdit(image) == IF image THEN "done" ELSE "openai_generate"

\* a waterfall that goes on to the KIE tier whatever OpenAI returned
AfterOpenAiFallsThrough(image) == "kie"

\* after the generate call: if (openAiImageUrl) return, else on to the KIE tier
AfterOpenAi(image) == IF image THEN "done" ELSE "kie"

\* the OpenAI key is not usable: straight to the KIE tier
DISkipOpenAi ==
    /\ dpc = "openai"
    /\ ~isUsableApiKey(dInput.openAiApiKey)
    /\ dpc' = "kie"
    /\ UNCHANGED <<dInput, requests, openAiImageUrl, pollAttempt, statusCalls,
                   allPending, kieOutcome, dResult, trackCalls, kieLast>>
    /\ UNCHANGED notImageVars

\* a reference image is supplied: the edit call comes first
DIOpenAiEdit ==
    /\ dpc = "openai"
    /\ isUsableApiKey(dInput.openAiApiKey)
    /\ dInput.referenceImageUrl # "none"
    /\ \E s1 \in OpenAiStatuses, s2 \in OpenAiStatuses, payload \in OpenAiPayloads :
          LET r == generateOpenAiImageEdit(dInput.referenceImageUrl, dInput.imageShape,
                                           s1, s2, payload)
          IN  /\ requests' = requests \o r.requests
              /\ openAiImageUrl' = r.image
              /\ dpc' = IF r.image THEN AfterOpenAi(TRUE) ELSE AfterEdit(FALSE)
              /\ dResult' = IF r.image THEN OpenAiResult ELSE dResult
              /\ trackCalls' = TrackOpenAi(trackCalls, r.tracked, "edit")
    /\ UNCHANGED <<dInput, pollAttempt, statusCalls, allPending, kieOutcome, kieLast>>
    /\ UNCHANGED notImageVars

\* no image yet from OpenAI: the generate call
DIOpenAiGenerate ==
    /\ \/ dpc = "openai_generate"
       \/ /\ dpc = "openai"
          /\ isUsableApiKey(dInput.openAiApiKey)
          /\ dInput.referenceImageUrl = "none"
    /\ \E s1 \in OpenAiStatuses, s2 \in OpenAiStatuses, payload \in OpenAiPayloads :
          LET r == generateOpenAiImage(dInput.imageShape, s1, s2, payload)
          IN  /\ requests' = requests \o r.requests
              /\ openAiImageUrl' = r.image
              /\ dpc' = AfterOpenAi(r.image)
              /\ dResult' = IF r.image THEN OpenAiResult ELSE dResult
              /\ trackCalls' = TrackOpenAi(trackCalls, r.tracked, "generate")
    /\ UNCHANGED <<dInput, pollAttempt, statusCalls, allPending, kieOutcome, kieLast>>
    /\ UNCHANGED notImageVars

\* the KIE key is not usable: the placeholder
DINoKieKey ==
    /\ dpc = "kie"
    /\ ~isUsableApiKey(dInput.keiAiApiKey)
    /\ dpc' = "done"
    /\ dResult' = [provider |-> "fallback-no-key", image |-> "placeholder",
                   message |-> "no-key"]
    /\ UNCHANGED <<dInput, requests, openAiImageUrl, pollAttempt, statusCalls,
                   allPending, kieOutcome, trackCalls, kieLast>>
    /\ UNCHANGED notImageVars

\* requestKieImage: the create request
DIKieSubmit ==
    /\ dpc = "kie"
    /\ isUsableApiKey(dInput.keiAiApiKey)
    /\ requests' = Append(requests, [tier |-> "kie", op |-> "submit", model |-> "image",
                                     size |-> getKieAspectRatio(dInput.imageShape),
                                     answer |-> "sent"])
    /\ \E out \in SubmitOutcomes :
          CASE out = "task" ->
                  /\ dpc' = "kie_poll"
                  /\ UNCHANGED <<kieOutcome, dResult, trackCalls>>
            [] out = "direct-image" ->
                  /\ dpc' = "done"
                  /\ kieOutcome' = "image"
                  /\ dResult' = [provider |-> "kie", image |-> "kie", message |-> "live"]
                  /\ trackCalls' = TrackKie(trackCalls)
            [] OTHER ->
                  /\ dpc' = "done"
                  /\ kieOutcome' = "failed"
                  /\ dResult' = [provider |-> "fallback-error", image |-> "placeholder",
                                 message |-> out]
                  /\ UNCHANGED trackCalls
    /\ UNCHANGED <<dInput, openAiImageUrl, pollAttempt, statusCalls, allPending, kieLast>>
    /\ UNCHANGED notImageVars

PollLimit == MaxAttempts(WaitMs(dInput.maxWaitMs, dInput.is4o),
                         SleepMs(dInput.pollIntervalMs, dInput.is4o))

\* requestKieImage: one iteration of the poll loop
DIKiePoll ==
    /\ dpc = "kie_poll"
    /\ pollAttempt < PollLimit
    /\ statusCalls' = statusCalls + 1
    /\ \E resp \in StatusResponses :
          LET step == PollStep(resp)
          IN  /\ kieLast' = StatusRead(resp)
              /\ CASE step = "image" ->
                      /\ dpc' = "done"
                      /\ kieOutcome' = "image"
                      /\ allPending' = FALSE
                      /\ dResult' = [provider |-> "kie", image |-> "kie", message |-> "live"]
                      /\ trackCalls' = IF PollTracksCost(resp) THEN TrackKie(trackCalls)
                                       ELSE trackCalls
                      /\ UNCHANGED pollAttempt
                [] step = "failed" ->
                      /\ dpc' = "done"
                      /\ kieOutcome' = "failed"
                      /\ allPending' = FALSE
                      /\ dResult' = [provider |-> "fallback-error", image |-> "placeholder",
                                     message |-> PollError(resp)]
                      /\ UNCHANGED <<pollAttempt, trackCalls>>
                [] OTHER ->
                      /\ pollAttempt' = pollAttempt + 1
                      /\ UNCHANGED <<dpc, kieOutcome, allPending, dResult, trackCalls>>
    /\ UNCHANGED <<dInput, requests, openAiImageUrl>>
    /\ UNCHANGED notImageVars

\* requestKieImage: the loop ran out, throw "timed out"
DIKieTimeout ==
    /\ dpc = "kie_poll"
    /\ ~(pollAttempt < PollLimit)
    /\ dpc' = "done"
    /\ kieOutcome' = "timedout"
    /\ dResult' = [provider |-> "fallback-error", image |-> "placeholder",
                   message |-> "timed out"]
    /\ UNCHANGED <<dInput, requests, openAiImageUrl, pollAttempt, statusCalls, allPending,
                   trackCalls, kieLast>>
    /\ UNCHANGED notImageVars

NextImage ==
    \/ DISkipOpenAi
    \/ DIOpenAiEdit
    \/ DIOpenAiGenerate
    \/ DINoKieKey
    \/ DIKieSubmit
    \/ DIKiePoll
    \/ DIKieTimeout

----------------------------------------------------------------------------
(* PodPipelineService.generateLifestyleImages and steps 1, 1b of             *)
(* finalize-product.  An image reference is modelled by where it comes from:  *)
(* "openai", "kie" or "placeholder".                                          *)

\* number of scene prompts: the requested ones, or the three default prompts
SceneCount(requested) == IF requested > 0 THEN requested ELSE DefaultScenes

\* one finalize request, as far as the lifestyle step sees it:
\*   requested  number of non-empty lifestylePrompts in the body (0: defaults)
\*   openAiKey, kieKey   isUsableApiKey of the two keys
\*   openAi1[k] OpenAI (edit, else generate) gives an image for prompt k in step 1
\*   kie[k]     requestKieImage gives an image for prompt k
\*   openAi2[k] OpenAI (edit, else generate) gives an image for prompt k in step 1b
\*   malformed  index of a requested prompt encodeURIComponent rejects (a lone
\*              surrogate in its first characters), 0 when there is none
\*   badType    encodeURIComponent rejects the design's productType
Scenarios ==
    UNION { { [requested |-> q, openAiKey |-> ok, kieKey |-> kk, openAi1 |-> o1,
               kie |-> ki, openAi2 |-> o2, malformed |-> m, badType |-> bt] :
                 ok \in BOOLEAN, kk \in BOOLEAN, bt \in BOOLEAN,
                 o1 \in [1..SceneCount(q) -> BOOLEAN],
                 ki \in [1..SceneCount(q) -> BOOLEAN],
                 o2 \in [1..SceneCount(q) -> BOOLEAN],
                 m \in 0..q } : q \in 0..MaxScenes }

NoScenario ==
    [requested |-> 0, openAiKey |-> FALSE, kieKey |-> FALSE,
     openAi1 |-> [k \in 1..DefaultScenes |-> FALSE],
     kie |-> [k \in 1..DefaultScenes |-> FALSE],
     openAi2 |-> [k \in 1..DefaultScenes |-> FALSE], malformed |-> 0, badType |-> FALSE]

NoLifestyle == [fatal |-> FALSE, imageUrls |-> <<>>, provider |-> "none",
                kieSent |-> {}, sweepSent |-> {}]

\* encodeURIComponent(prompt.slice(0, ..)) throws for prompt k; the default prompts
\* embed the productType
CannotEncode(sc, k) ==
    IF sc.requested > 0 THEN sc.malformed = k ELSE sc.badType

RECURSIVE Successes(_, _)
\* the images pushed for the prompts 1..n a provider succeeded on, in order
Successes(ok, n) ==
    IF n = 0 THEN <<>>
    ELSE IF ok[n] THEN Append(Successes(ok, n - 1), TRUE) ELSE Successes(ok, n - 1)

Fill(n, what) == [k \in 1..n |-> what]

\* the prompts the KIE loop sends: all of them, up to the first one whose catch
\* throws while building the placeholder
KieLoopPrompts(sc, n) ==
    { k \in 1..n : \A j \in 1..(k - 1) : ~(~sc.kie[j] /\ CannotEncode(sc, j)) }

\* generateLifestyleImages: [threw, imageUrls, provider, kieSent]
generateLifestyleImages(sc) ==
    LET n == SceneCount(sc.requested)
        openAiResults == IF sc.openAiKey THEN Successes(sc.openAi1, n) ELSE <<>>
    IN  IF sc.openAiKey /\ Len(openAiResults) = n
        THEN [threw |-> FALSE, imageUrls |-> Fill(n, "openai"), provider |-> "openai",
              kieSent |-> {}]
        ELSE IF ~sc.kieKey
        THEN IF sc.badType \/ \E k \in 1..n : CannotEncode(sc, k)
             THEN [threw |-> TRUE, imageUrls |-> <<>>, provider |-> "none", kieSent |-> {}]
             ELSE [threw |-> FALSE, imageUrls |-> Fill(n, "placeholder"),
                   provider |-> "fallback-no-key", kieSent |-> {}]
        ELSE IF \E k \in 1..n : ~sc.kie[k] /\ CannotEncode(sc, k)
             THEN [threw |-> TRUE, imageUrls |-> <<>>, provider |-> "none",
                   kieSent |-> KieLoopPrompts(sc, n)]
             ELSE [threw |-> FALSE,
                   imageUrls |-> [k \in 1..n |-> IF sc.kie[k] THEN "kie" ELSE "placeholder"],
                   provider |-> IF \E k \in 1..n : ~sc.kie[k]
                                THEN "mixed-fallback" ELSE "kie",
                   kieSent |-> 1..n]

\* step 1: the call, and the catch that substitutes one placeholder image
\* (building it encodes the productType, which throws out of the guarded step)
FinalizeStep1(sc) ==
    LET r == generateLifestyleImages(sc)
    IN  IF ~r.threw
        THEN [fatal |-> FALSE, imageUrls |-> r.imageUrls, provider |-> r.provider,
              kieSent |-> r.kieSent, sweepSent |-> {}]
        ELSE IF sc.badType
        THEN [fatal |-> TRUE, imageUrls |-> <<>>, provider |-> "none",
              kieSent |-> r.kieSent, sweepSent |-> {}]
        ELSE [fatal |-> FALSE, imageUrls |-> << "placeholder" >>,
              provider |-> "fallback-error", kieSent |-> r.kieSent, sweepSent |-> {}]

\* step 1b: the OpenAI sweep over all scene prompts, kept only when every prompt
\* got an image
FinalizeStep1b(sc, r) ==
    IF r.fatal \/ r.provider \in {"kie", "openai"} THEN r
    ELSE LET n == SceneCount(sc.requested)
             openAiLifestyleImages == IF sc.openAiKey THEN Successes(sc.openAi2, n) ELSE <<>>
             sent == IF sc.openAiKey THEN 1..n ELSE {}
         IN  IF Len(openAiLifestyleImages) = n
             THEN [fatal |-> FALSE, imageUrls |-> Fill(n, "openai"),
                   provider |-> "openai-image-fallback",
                   kieSent |-> r.kieSent, sweepSent |-> sent]
             ELSE [r EXCEPT !.sweepSent = sent]

\* steps 1 and 1b (step 1c rewrites each reference in place and keeps the count)
FinalizeLifestyle(sc) == FinalizeStep1b(sc, FinalizeStep1(sc))

LifestyleStart ==
    /\ scenario \in Scenarios
    /\ lpc = "run"
    /\ lifestyle = NoLifestyle

LifestyleIdle ==
    /\ scenario = NoScenario
    /\ lpc = "idle"
    /\ lifestyle = NoLifestyle

\* the lifestyle steps of one finalize request
LifestyleRun ==
    /\ lpc = "run"
    /\ lifestyle' = FinalizeLifestyle(scenario)
    /\ lpc' = "done"
    /\ UNCHANGED scenario
    /\ UNCHANGED notLifestyleVars

NextLifestyle ==
    \/ LifestyleRun

----------------------------------------------------------------------------
(* PodPipelineService.generateListingCopy.  Texts are kept as short strings:  *)
(* "" is the empty text, " " a text of white space only.                       *)

\* the productType of the design: sanitize(..).toLowerCase(), possibly empty
ProductTypes == {"mug", ""}

\* design.prompt: never empty (design-preview answers 400 to an empty prompt)
Prompt == "cat"

\* a field of the parsed content that is not there (undefined)
Undefined == "undefined"

\* String.prototype.trim on the texts of the model
Trim(text) ==
    CASE text = " " -> ""
      [] text = " - cat" -> "- cat"
      [] text = "cat " -> "cat"
      [] OTHER -> text

\* the values JavaScript's || skips
Falsy(value) == value = Undefined \/ value = ""

\* `${productType.toUpperCase()} - ${prompt.slice(0, 45)}`
FallbackTitle(productType) == IF productType = "mug" THEN "MUG - cat" ELSE " - cat"

\* `${prompt}. Professionally generated POD design and lifestyle visuals.`
FallbackDescriptionText == "cat. Professionally generated"

\* ["ai-generated", "pod", productType]
FallbackTags(productType) == << "ai-generated", "pod", productType >>

\* the copy of the no-key branch and of the catch branch
FallbackCopy(productType, provider, fetches) ==
    [threw |-> FALSE, fetches |-> fetches, provider |-> provider,
     title |-> FallbackTitle(productType),
     descriptionHtml |-> << "<p>", Prompt, "</p>", "<p>Professionally generated</p>" >>,
     descriptionText |-> FallbackDescriptionText,
     tags |-> FallbackTags(productType)]

RECURSIVE TrimmedTags(_)
\* parsed.tags.map((tag) => String(tag).trim()).filter(Boolean)
TrimmedTags(tags) ==
    IF tags = <<>> THEN <<>>
    ELSE IF Trim(Head(tags)) = "" THEN TrimmedTags(Tail(tags))
    ELSE << Trim(Head(tags)) >> \o TrimmedTags(Tail(tags))

\* payload.choices[0].message.content as JSON.parse reads it:
\*   "absent"    no content in the payload (read as "{}")
\*   "non-json"  JSON.parse throws
\*   "null"      the JSON value null (reading parsed.title throws)
\*   "scalar"    a JSON string, number or array: no title, descriptionText or tags
\*   "object"    a JSON object with the fields given (Undefined: not there;
\*               tags NoTags: not an array)
NoTags == [isArray |-> FALSE, items |-> <<>>]

Tags(items) == [isArray |-> TRUE, items |-> items]

Contents(productType) ==
    { [kind |-> k, title |-> Undefined, descriptionText |-> Undefined, tags |-> NoTags] :
          k \in {"absent", "non-json", "null", "scalar"} }
    \cup
    { [kind |-> "object", title |-> t, descriptionText |-> dt, tags |-> tg] :
          t \in {Undefined, "", " ", "Cat mug"},
          dt \in {Undefined, " ", "A mug with a cat"},
          tg \in {NoTags, Tags(<<>>), Tags(<< " " >>), Tags(<< "cat" >>),
                  Tags(<< "cat ", productType >>)} }

\* HTTP status of the chat completion request; 0 is a transport exception
CopyStatuses == {0, 200, 401, 429, 500}

\* a response that passes any status
ResponseOkAlways(status) == status # 0

\* response.ok
ResponseOk(status) == status >= 200 /\ status <= 299

CopyInputs ==
    UNION { { [key |-> key, productType |-> pt, status |-> st, bodyIsJson |-> bj,
               content |-> c] :
                 key \in KeyKinds, st \in CopyStatuses, bj \in BOOLEAN,
                 c \in Contents(pt) } : pt \in ProductTypes }

NoCopyInput ==
    [key |-> "empty", productType |-> "mug", status |-> 0, bodyIsJson |-> FALSE,
     content |-> [kind |-> "absent", title |-> Undefined, descriptionText |-> Undefined,
                  tags |-> NoTags]]

NoCopy ==
    [threw |-> FALSE, fetches |-> 0, provider |-> "none", title |-> "",
     descriptionHtml |-> <<>>, descriptionText |-> "", tags |-> <<>>]

\* the try block after a response that is ok
ParsedCopy(in) ==
    LET c == in.content
        title == Trim(IF Falsy(c.title) THEN FallbackTitle(in.productType) ELSE c.title)
        descriptionText ==
            Trim(IF Falsy(c.descriptionText) THEN FallbackDescriptionText
                 ELSE c.descriptionText)
        tags == IF c.tags.isArray THEN TrimmedTags(c.tags.items) ELSE <<>>
    IN  [threw |-> FALSE, fetches |-> 1, provider |-> "openai", title |-> title,
         descriptionHtml |-> << "<p>", descriptionText, "</p>" >>,
         descriptionText |-> descriptionText,
         tags |-> IF Len(tags) > 0 THEN tags ELSE FallbackTags(in.productType)]

generateListingCopy(in) ==
    IF ~isUsableApiKey(in.key)
    THEN FallbackCopy(in.productType, "fallback-no-key", 0)
    ELSE IF \/ in.status = 0
            \/ ~ResponseOk(in.status)
            \/ ~in.bodyIsJson
            \/ in.content.kind \in {"non-json", "null"}
    THEN FallbackCopy(in.productType, "fallback-error", 1)
    ELSE ParsedCopy(in)

CopyStart ==
    /\ copyInput \in CopyInputs
    /\ cpc = "run"
    /\ copyResult = NoCopy

CopyIdle ==
    /\ copyInput = NoCopyInput
    /\ cpc = "idle"
    /\ copyResult = NoCopy

\* one call of generateListingCopy
CopyRun ==
    /\ cpc = "run"
    /\ copyResult' = generateListingCopy(copyInput)
    /\ cpc' = "done"
    /\ UNCHANGED copyInput
    /\ UNCHANGED notCopyVars

NextCopy ==
    \/ CopyRun

----------------------------------------------------------------------------
(* The store (designs, assets, products) and the pod routes.  A handler runs   *)
(* atomically between two awaits; an action is one such stretch.                *)

Shops == {"a.myshopify.com", "b.myshopify.com"}

\* the designs one run of the routes creates
DesignIds == {1}

\* the request handlers that can be in flight together
Reqs == {1, 2}

\* createDesignRecord; "" and null are written 0 for ids and "" for references
NoDesign ==
    [exists |-> FALSE, id |-> 0, shopDomain |-> "", status |-> "", artworkPrompt |-> "",
     currentDesignAssetId |-> 0, revisionCount |-> 0, finalizedAt |-> FALSE,
     finalizedAtWrites |-> 0, shopifyProductId |-> 0, adminUrl |-> 0,
     previewImageUrl |-> "", rawArtworkUrl |-> "", mockupImageUrl |-> ""]

createDesignRecord(id, shopDomain, designImageUrl) ==
    [exists |-> TRUE, id |-> id, shopDomain |-> shopDomain, status |-> "preview_ready",
     artworkPrompt |-> "base", currentDesignAssetId |-> 0, revisionCount |-> 0,
     finalizedAt |-> FALSE, finalizedAtWrites |-> 0, shopifyProductId |-> 0,
     adminUrl |-> 0, previewImageUrl |-> designImageUrl,
     rawArtworkUrl |-> designImageUrl, mockupImageUrl |-> ""]

NoResp ==
    [kind |-> "none", productId |-> 0, adminUrl |-> 0, alreadyPublished |-> FALSE,
     publishError |-> FALSE, lifestyleImages |-> <<>>]

\* calls a request made: image, copy and publish count the calls of the pipeline
\* and publish services, copyFetches the requests generateListingCopy sent to
\* the copy provider
NoCalls == [image |-> 0, copy |-> 0, copyFetches |-> 0, publish |-> 0]

FreeReq ==
    [kind |-> "none", pc |-> "free", shop |-> "", designId |-> 0, design |-> NoDesign,
     lifestyleImages |-> <<>>, imageUrls |-> <<>>, calls |-> NoCalls, writes |-> 0,
     publishThrew |-> FALSE, resp |-> NoResp]

\* the providers generateDesignImage can name in its result
DesignImageProviders == {"openai", "kie", "fallback-no-key", "fallback-error"}

\* the image reference that comes with a provider tag
ImageOf(provider) == IF provider \in {"openai", "kie"} THEN "generated" ELSE "placeholder"

\* a store that overwrites its newest asset record instead of adding one
saveAssetOverwriting(as, serial, designId, shopDomain, type, role, url) ==
    LET asset == [id |-> serial + 1, designId |-> designId, shopDomain |-> shopDomain,
                  type |-> type, role |-> role, url |-> url]
    IN  IF as = <<>> THEN << asset >> ELSE [as EXCEPT ![Len(as)] = asset]

\* AssetStorageService.saveAsset / AssetRepository.create
saveAsset(as, serial, designId, shopDomain, type, role, url) ==
    Append(as, [id |-> serial + 1, designId |-> designId, shopDomain |-> shopDomain,
                type |-> type, role |-> role, url |-> url])

RECURSIVE saveAssets(_, _, _, _, _, _, _)
\* for (const imageUrl of lifestyleImages) saveAsset(...)
saveAssets(as, serial, designId, shopDomain, type, role, urls) ==
    IF urls = <<>> THEN as
    ELSE saveAssets(saveAsset(as, serial, designId, shopDomain, type, role, Head(urls)),
                    serial + 1, designId, shopDomain, type, role, Tail(urls))

\* AssetRepository.deleteByDesign
RECURSIVE deleteByDesign(_, _)
deleteByDesign(as, designId) ==
    IF as = <<>> THEN <<>>
    ELSE IF Head(as).designId = designId THEN deleteByDesign(Tail(as), designId)
    ELSE << Head(as) >> \o deleteByDesign(Tail(as), designId)

\* AssetRepository.listByDesign, then filter type === "lifestyle", map url
RECURSIVE LifestyleUrls(_, _)
LifestyleUrls(as, designId) ==
    IF as = <<>> THEN <<>>
    ELSE LET rest == LifestyleUrls(Tail(as), designId)
         IN  IF Head(as).designId = designId /\ Head(as).type = "lifestyle"
             THEN << Head(as).url >> \o rest
             ELSE rest

\* a repository that adds a record on every publish
upsertAlwaysPushes(ps, designId, productRecord) == Append(ps, productRecord)

\* an upsert that leaves a record it finds as it is
upsertKeepsExisting(ps, designId, productRecord) ==
    IF \E i \in 1..Len(ps) : ps[i].designId = designId
    THEN ps
    ELSE Append(ps, productRecord)

\* ProductRepository.findByDesign: the first record of the design, or none
findByDesign(ps, designId) ==
    IF \E i \in 1..Len(ps) : ps[i].designId = designId
    THEN ps[CHOOSE i \in 1..Len(ps) :
                /\ ps[i].designId = designId
                /\ \A j \in 1..(i - 1) : ps[j].designId # designId]
    ELSE [designId |-> 0, shopDomain |-> "", productId |-> 0, adminUrl |-> 0]

\* ProductRepository.upsertByDesign
upsertByDesign(ps, designId, productRecord) ==
    IF \E i \in 1..Len(ps) : ps[i].designId = designId
    THEN LET existingIndex ==
                 CHOOSE i \in 1..Len(ps) :
                     /\ ps[i].designId = designId
                     /\ \A j \in 1..(i - 1) : ps[j].designId # designId
         IN  [ps EXCEPT ![existingIndex] = productRecord]
    ELSE Append(ps, productRecord)

\* a check that asks for the record only
FoundAnyShop(design, shopDomain) == design.exists

\* DesignRepository.findById, and the tenant check of every route
Found(design, shopDomain) == design.exists /\ design.shopDomain = shopDomain

\* a guard that never short-circuits
AlreadyPublishedNever(design) == FALSE

\* a guard that also short-circuits while another finalize of the design is in flight
AlreadyPublishedOrLocked(design) ==
    \/ design.status = "published" /\ design.shopifyProductId # 0
    \/ \E q \in Reqs : /\ req[q].kind = "finalize"
                       /\ req[q].pc \notin {"free", "done"}
                       /\ req[q].designId = design.id

\* the idempotency guard of finalize-product and retry-publish
AlreadyPublished(design) == design.status = "published" /\ design.shopifyProductId # 0

\* a final status that ignores whether publish returned a product
FinalStatusAlwaysPublished(published) == "published"

\* step 6 of finalize-product: the status written
FinalStatus(published) == IF published THEN "published" ELSE "finalized"

\* DesignRepository.update with the patch of step 6 (no record: nothing is written)
FinalizePatch(design, published, productId) ==
    IF ~design.exists THEN design
    ELSE IF published
         THEN [design EXCEPT !.status = FinalStatus(TRUE),
                             !.shopifyProductId = productId,
                             !.adminUrl = productId,
                             !.finalizedAt = TRUE,
                             !.finalizedAtWrites = @ + 1]
         ELSE [design EXCEPT !.status = FinalStatus(FALSE),
                             !.finalizedAt = TRUE,
                             !.finalizedAtWrites = @ + 1]

\* a patch that writes the status and leaves the product id alone
RetryPublishPatchStatusOnly(design, productId) ==
    IF ~design.exists THEN design ELSE [design EXCEPT !.status = "published"]

\* DesignRepository.update with the patch of retry-publish
RetryPublishPatch(design, productId) ==
    IF ~design.exists THEN design
    ELSE [design EXCEPT !.status = "published",
                        !.shopifyProductId = productId,
                        !.adminUrl = productId]

\* DesignRepository.update with the patch of revise-design; the revision count is
\* taken from the record the handler read when it started
RevisePatch(design, read, url, assetId) ==
    IF ~design.exists THEN design
    ELSE [design EXCEPT !.artworkPrompt = "revised",
                        !.previewImageUrl = url,
                        !.rawArtworkUrl = url,
                        !.currentDesignAssetId = assetId,
                        !.revisionCount = read.revisionCount + 1,
                        !.status = "preview_ready"]

\* DesignRepository.update with the patch of generate-mockup
MockupPatch(design, url) ==
    IF ~design.exists THEN design
    ELSE [design EXCEPT !.previewImageUrl = url, !.mockupImageUrl = url]

productRecord(designId, shopDomain, productId) ==
    [designId |-> designId, shopDomain |-> shopDomain, productId |-> productId,
     adminUrl |-> productId]

InFlight(r) == req[r].pc \notin {"free", "done"}

\* the run may start one more request in handler slot r (the first one not in
\* flight), and, when requests do not overlap, no other handler is in flight
CanStart(r) ==
    /\ ~InFlight(r)
    /\ \A q \in Reqs : q < r => InFlight(q)
    /\ started < (IF overlap THEN MaxRequests ELSE MaxSeqRequests)
    /\ overlap \/ \A q \in Reqs : ~InFlight(q)

Begin(r, kind, shop, d) ==
    [FreeReq EXCEPT !.kind = kind, !.shop = shop, !.designId = d]

\* the response is sent and the handler's locals are gone
Respond(rq, resp) ==
    [rq EXCEPT !.pc = "done", !.resp = resp, !.design = NoDesign,
               !.lifestyleImages = <<>>, !.imageUrls = <<>>]

NotFound == [NoResp EXCEPT !.kind = "notfound"]
Fatal == [NoResp EXCEPT !.kind = "fatal"]

\* the lifestyle scenarios the routes are run on: every default scene from OpenAI,
\* one scene by KIE and two placeholders, a thrown generateLifestyleImages
\* (one placeholder), and a productType that cannot be encoded (fatal)
RouteScenarios ==
    { [NoScenario EXCEPT !.openAiKey = TRUE, !.openAi1 = [k \in 1..DefaultScenes |-> TRUE]],
      [NoScenario EXCEPT !.kieKey = TRUE, !.kie = [k \in 1..DefaultScenes |-> k = 1]],
      [NoScenario EXCEPT !.requested = 2, !.malformed = 1,
                         !.openAi1 = [k \in 1..2 |-> FALSE],
                         !.kie = [k \in 1..2 |-> FALSE],
                         !.openAi2 = [k \in 1..2 |-> FALSE]],
      [NoScenario EXCEPT !.badType = TRUE] }

\* the listing copy calls the routes are run on: no usable key, and a live key
\* with a well-formed answer
RouteCopyInputs ==
    { NoCopyInput,
      [NoCopyInput EXCEPT !.key = "live", !.status = 200, !.bodyIsJson = TRUE,
                          !.content = [kind |-> "object", title |-> "Cat mug",
                                       descriptionText |-> "A mug with a cat",
                                       tags |-> Tags(<< "cat" >>)]] }

RoutesStart(mayOverlap) ==
    /\ overlap = mayOverlap
    /\ designs = [d \in DesignIds |-> NoDesign]
    /\ assets = <<>>
    /\ products = <<>>
    /\ req = [r \in Reqs |-> FreeReq]
    /\ started = 0
    /\ designSerial = 0
    /\ assetSerial = 0
    /\ productSerial = 0
    /\ publishCalls = [d \in DesignIds |-> 0]
    /\ publishReturned = [d \in DesignIds |-> 0]

RoutesIdle ==
    /\ overlap = FALSE
    /\ designs = [d \in DesignIds |-> NoDesign]
    /\ assets = <<>>
    /\ products = <<>>
    /\ req = [r \in Reqs |-> [FreeReq EXCEPT !.pc = "done"]]
    /\ started = 0
    /\ designSerial = 0
    /\ assetSerial = 0
    /\ productSerial = 0
    /\ publishCalls = [d \in DesignIds |-> 0]
    /\ publishReturned = [d \in DesignIds |-> 0]

\* ---- POST /design-preview ----

\* up to the await of generateDesignImage
PrevStart(r, shop) ==
    /\ CanStart(r)
    /\ designSerial
         + Cardinality({q \in Reqs : InFlight(q) /\ req[q].kind = "preview"})
         < Cardinality(DesignIds)
    /\ req' = [req EXCEPT ![r] =
                  [Begin(r, "preview", shop, 0) EXCEPT !.pc = "preview_image",
                                                       !.calls.image = 1]]
    /\ started' = started + 1
    /\ UNCHANGED <<overlap, designs, assets, products, designSerial, assetSerial,
                   productSerial, publishCalls, publishReturned>>
    /\ UNCHANGED notRouteVars

\* generateDesignImage returned (createDesignRecord, saveAsset,
\* designRepository.create) or threw (500)
PrevFinish(r) ==
    /\ req[r].kind = "preview" /\ req[r].pc = "preview_image"
    /\ \/ \E provider \in DesignImageProviders :
             LET d == designSerial + 1
                 url == ImageOf(provider)
             IN  /\ assets' = saveAsset(assets, assetSerial, d, req[r].shop,
                                        "artwork-raw", "base", url)
                 /\ designs' = [designs EXCEPT ![d] =
                                   [createDesignRecord(d, req[r].shop, url)
                                       EXCEPT !.currentDesignAssetId = assetSerial + 1]]
                 /\ req' = [req EXCEPT ![r] =
                               Respond([@ EXCEPT !.designId = d, !.writes = 2],
                                       [NoResp EXCEPT !.kind = "ok"])]
                 /\ designSerial' = designSerial + 1
                 /\ assetSerial' = assetSerial + 1
       \/ /\ req' = [req EXCEPT ![r] = Respond(@, Fatal)]
          /\ UNCHANGED <<designs, assets, designSerial, assetSerial>>
    /\ UNCHANGED <<overlap, products, started, productSerial, publishCalls, publishReturned>>
    /\ UNCHANGED notRouteVars

\* ---- POST /generate-mockup ----

MockStart(r, shop, d) ==
    /\ CanStart(r)
    /\ req' = [req EXCEPT ![r] =
                  IF ~Found(designs[d], shop)
                  THEN Respond(Begin(r, "mockup", shop, d), NotFound)
                  ELSE [Begin(r, "mockup", shop, d) EXCEPT !.pc = "mockup_image",
                                                            !.design = designs[d]]]
    /\ started' = started + 1
    /\ UNCHANGED <<overlap, designs, assets, products, designSerial, assetSerial,
                   productSerial, publishCalls, publishReturned>>
    /\ UNCHANGED notRouteVars

\* the Printful mockup came back, or else the AI one (saveAsset,
\* designRepository.update), or generateDesignImage threw (500)
MockFinish(r) ==
    /\ req[r].kind = "mockup" /\ req[r].pc = "mockup_image"
    /\ \/ \E url \in {"printful"} \cup {ImageOf(p) : p \in DesignImageProviders} :
             /\ assets' = saveAsset(assets, assetSerial, req[r].designId, req[r].shop,
                                    "design-preview", "mockup", url)
             /\ designs' = [designs EXCEPT ![req[r].designId] = MockupPatch(@, url)]
             /\ req' = [req EXCEPT ![r] =
                           Respond([@ EXCEPT !.writes = 2,
                                             !.calls.image = IF url = "printful" THEN 0 ELSE 1],
                                   [NoResp EXCEPT !.kind = "ok"])]
             /\ assetSerial' = assetSerial + 1
       \/ /\ req' = [req EXCEPT ![r] = Respond([@ EXCEPT !.calls.image = 1], Fatal)]
          /\ UNCHANGED <<designs, assets, assetSerial>>
    /\ UNCHANGED <<overlap, products, started, designSerial, productSerial, publishCalls,
                   publishReturned>>
    /\ UNCHANGED notRouteVars

\* ---- POST /revise-design ----

\* a handler that stores the image before it looks at the provider tag
reviseAssetsSavedFirst(as, serial, designId, shopDomain, provider) ==
    saveAsset(as, serial, designId, shopDomain, "design-preview", "revision",
              ImageOf(provider))

\* the asset list revise-design leaves: the revision is saved only behind the
\* 504 return for a result that is neither "openai" nor "kie"
reviseAssets(as, serial, designId, shopDomain, provider) ==
    IF provider \notin {"openai", "kie"} THEN as
    ELSE saveAsset(as, serial, designId, shopDomain, "design-preview", "revision",
                   ImageOf(provider))

ReviseStart(r, shop, d) ==
    /\ CanStart(r)
    /\ req' = [req EXCEPT ![r] =
                  IF ~Found(designs[d], shop)
                  THEN Respond(Begin(r, "revise", shop, d), NotFound)
                  ELSE [Begin(r, "revise", shop, d) EXCEPT !.pc = "revise_image",
                                                            !.design = designs[d],
                                                            !.calls.image = 1]]
    /\ started' = started + 1
    /\ UNCHANGED <<overlap, designs, assets, products, designSerial, assetSerial,
                   productSerial, publishCalls, publishReturned>>
    /\ UNCHANGED notRouteVars

\* the first generateDesignImage result is in, and the second when the first was
\* a fallback: 504 on a fallback result, else saveAsset and
\* designRepository.update; 500 when generateDesignImage threw
ReviseFinish(r) ==
    /\ req[r].kind = "revise" /\ req[r].pc = "revise_image"
    /\ \/ \E first \in DesignImageProviders, second \in DesignImageProviders :
             LET again == first \notin {"openai", "kie"}
                 provider == IF again THEN second ELSE first
                 rq == [req[r] EXCEPT !.calls.image = IF again THEN 2 ELSE 1]
             IN  /\ ~again => second = first
                 /\ IF provider \notin {"openai", "kie"}
                    THEN /\ req' = [req EXCEPT ![r] =
                                       Respond(rq, [NoResp EXCEPT !.kind = "timeout504"])]
                         /\ assets' = reviseAssets(assets, assetSerial, req[r].designId,
                                                   req[r].shop, provider)
                         /\ UNCHANGED <<designs, assetSerial>>
                    ELSE /\ assets' = reviseAssets(assets, assetSerial, req[r].designId,
                                                   req[r].shop, provider)
                         /\ designs' = [designs EXCEPT ![req[r].designId] =
                                           RevisePatch(@, req[r].design, ImageOf(provider),
                                                       assetSerial + 1)]
                         /\ req' = [req EXCEPT ![r] =
                                       Respond([rq EXCEPT !.writes = 2],
                                               [NoResp EXCEPT !.kind = "ok"])]
                         /\ assetSerial' = assetSerial + 1
       \/ /\ req' = [req EXCEPT ![r] = Respond(@, Fatal)]
          /\ UNCHANGED <<designs, assets, assetSerial>>
    /\ UNCHANGED <<overlap, products, started, designSerial, productSerial, publishCalls,
                   publishReturned>>
    /\ UNCHANGED notRouteVars

\* ---- POST /finalize-product ----

Cached(design) ==
    [NoResp EXCEPT !.kind = "ok", !.productId = design.shopifyProductId,
                   !.adminUrl = design.adminUrl, !.alreadyPublished = TRUE]

\* findById, the idempotency guard, and up to the await of generateLifestyleImages
FinStart(r, shop, d) ==
    /\ CanStart(r)
    /\ req' = [req EXCEPT ![r] =
                  IF ~Found(designs[d], shop)
                  THEN Respond(Begin(r, "finalize", shop, d), NotFound)
                  ELSE IF AlreadyPublished(designs[d])
                  THEN Respond([Begin(r, "finalize", shop, d) EXCEPT !.design = designs[d]],
                               Cached(designs[d]))
                  ELSE [Begin(r, "finalize", shop, d) EXCEPT !.pc = "lifestyle",
                                                              !.design = designs[d],
                                                              !.calls.image = 1]]
    /\ started' = started + 1
    /\ UNCHANGED <<overlap, designs, assets, products, designSerial, assetSerial,
                   productSerial, publishCalls, publishReturned>>
    /\ UNCHANGED notRouteVars

\* steps 1 to 2, up to the await of generateListingCopy
FinLifestyle(r) ==
    /\ req[r].kind = "finalize" /\ req[r].pc = "lifestyle"
    /\ \E sc \in RouteScenarios, extracted \in BOOLEAN :
          LET result == FinalizeLifestyle(sc)
              saves == req[r].design.rawArtworkUrl # "" \/ extracted
              url == IF req[r].design.rawArtworkUrl # "" THEN req[r].design.rawArtworkUrl
                     ELSE "openai"
          IN  IF result.fatal
              THEN /\ req' = [req EXCEPT ![r] = Respond(@, Fatal)]
                   /\ UNCHANGED <<assets, assetSerial>>
              ELSE /\ req[r].design.rawArtworkUrl # "" => ~extracted
                   /\ assets' = IF saves
                                THEN saveAsset(assets, assetSerial, req[r].designId,
                                               req[r].shop, "artwork-transparent", "final", url)
                                ELSE assets
                   /\ assetSerial' = IF saves THEN assetSerial + 1 ELSE assetSerial
                   /\ req' = [req EXCEPT ![r] =
                                 [@ EXCEPT !.pc = "copy",
                                           !.lifestyleImages = result.imageUrls,
                                           !.calls.image =
                                               IF req[r].design.rawArtworkUrl # "" THEN @ ELSE @ + 1,
                                           !.calls.copy = 1,
                                           !.writes = IF saves THEN 1 ELSE 0]]
    /\ UNCHANGED <<overlap, designs, products, started, designSerial, productSerial,
                   publishCalls, publishReturned>>
    /\ UNCHANGED notRouteVars

\* steps 3 and 4, up to the await of publishService.publish
FinCopy(r) ==
    /\ req[r].kind = "finalize" /\ req[r].pc = "copy"
    /\ assets' = saveAssets(assets, assetSerial, req[r].designId, req[r].shop,
                            "lifestyle", "final", req[r].lifestyleImages)
    /\ assetSerial' = assetSerial + Len(req[r].lifestyleImages)
    /\ \E in \in RouteCopyInputs :
          req' = [req EXCEPT ![r] =
                     [@ EXCEPT !.pc = "publish",
                               !.imageUrls = << req[r].design.previewImageUrl >>
                                               \o req[r].lifestyleImages,
                               !.calls.copyFetches = generateListingCopy(in).fetches,
                               !.calls.publish = 1,
                               !.writes = @ + Len(req[r].lifestyleImages)]]
    /\ publishCalls' = [publishCalls EXCEPT ![req[r].designId] = @ + 1]
    /\ UNCHANGED <<overlap, designs, products, started, designSerial, productSerial,
                   publishReturned>>
    /\ UNCHANGED notRouteVars

\* steps 5 and 6 and the response: publish returned a product, or threw
FinPublish(r) ==
    /\ req[r].kind = "finalize" /\ req[r].pc = "publish"
    /\ \E returned \in BOOLEAN :
          LET d == req[r].designId
              productId == productSerial + 1
          IN  IF returned
              THEN /\ designs' = [designs EXCEPT ![d] = FinalizePatch(@, TRUE, productId)]
                   /\ products' = upsertByDesign(products, d,
                                                 productRecord(d, req[r].shop, productId))
                   /\ productSerial' = productId
                   /\ publishReturned' = [publishReturned EXCEPT ![d] = @ + 1]
                   /\ req' = [req EXCEPT ![r] =
                                 Respond([@ EXCEPT !.writes = @ + 2],
                                         [NoResp EXCEPT !.kind = "ok",
                                                        !.productId = productId,
                                                        !.adminUrl = productId,
                                                        !.lifestyleImages =
                                                            req[r].lifestyleImages])]
              ELSE /\ designs' = [designs EXCEPT ![d] = FinalizePatch(@, FALSE, 0)]
                   /\ req' = [req EXCEPT ![r] =
                                 Respond([@ EXCEPT !.writes = @ + 1, !.publishThrew = TRUE],
                                         [NoResp EXCEPT !.kind = "ok",
                                                        !.publishError = TRUE,
                                                        !.lifestyleImages =
                                                            req[r].lifestyleImages])]
                   /\ UNCHANGED <<products, productSerial, publishReturned>>
    /\ UNCHANGED <<overlap, assets, started, designSerial, assetSerial, publishCalls>>
    /\ UNCHANGED notRouteVars

\* ---- POST /retry-publish ----

\* findById, the guard, the image list, and up to the await of generateListingCopy
RetryPublishStart(r, shop, d) ==
    /\ CanStart(r)
    /\ req' = [req EXCEPT ![r] =
                  IF ~Found(designs[d], shop)
                  THEN Respond(Begin(r, "retry-publish", shop, d), NotFound)
                  ELSE IF AlreadyPublished(designs[d])
                  THEN Respond([Begin(r, "retry-publish", shop, d)
                                   EXCEPT !.design = designs[d]],
                               Cached(designs[d]))
                  ELSE [Begin(r, "retry-publish", shop, d)
                           EXCEPT !.pc = "copy",
                                  !.design = designs[d],
                                  !.imageUrls = << designs[d].previewImageUrl >>
                                                  \o LifestyleUrls(assets, d),
                                  !.calls.copy = 1]]
    /\ started' = started + 1
    /\ UNCHANGED <<overlap, designs, assets, products, designSerial, assetSerial,
                   productSerial, publishCalls, publishReturned>>
    /\ UNCHANGED notRouteVars

\* the listing copy is in (or its fallback); up to the await of publishService.publish
RetryPublishCopy(r) ==
    /\ req[r].kind = "retry-publish" /\ req[r].pc = "copy"
    /\ \E in \in RouteCopyInputs :
          req' = [req EXCEPT ![r] =
                     [@ EXCEPT !.pc = "publish",
                               !.calls.copyFetches = generateListingCopy(in).fetches,
                               !.calls.publish = 1]]
    /\ publishCalls' = [publishCalls EXCEPT ![req[r].designId] = @ + 1]
    /\ UNCHANGED <<overlap, designs, assets, products, started, designSerial, assetSerial,
                   productSerial, publishReturned>>
    /\ UNCHANGED notRouteVars

\* publish returned a product (update, upsert, response) or threw (response only)
RetryPublishFinish(r) ==
    /\ req[r].kind = "retry-publish" /\ req[r].pc = "publish"
    /\ \E returned \in BOOLEAN :
          LET d == req[r].designId
              productId == productSerial + 1
          IN  IF returned
              THEN /\ designs' = [designs EXCEPT ![d] = RetryPublishPatch(@, productId)]
                   /\ products' = upsertByDesign(products, d,
                                                 productRecord(d, req[r].shop, productId))
                   /\ productSerial' = productId
                   /\ publishReturned' = [publishReturned EXCEPT ![d] = @ + 1]
                   /\ req' = [req EXCEPT ![r] =
                                 Respond([@ EXCEPT !.writes = 2],
                                         [NoResp EXCEPT !.kind = "ok",
                                                        !.productId = productId,
                                                        !.adminUrl = productId])]
              ELSE /\ req' = [req EXCEPT ![r] =
                                 Respond([@ EXCEPT !.publishThrew = TRUE],
                                         [NoResp EXCEPT !.kind = "ok",
                                                        !.publishError = TRUE])]
                   /\ UNCHANGED <<designs, products, productSerial, publishReturned>>
    /\ UNCHANGED <<overlap, assets, started, designSerial, assetSerial, publishCalls>>
    /\ UNCHANGED notRouteVars

\* ---- DELETE /designs/:designId ----

DeleteDesign(r, shop, d) ==
    /\ CanStart(r)
    /\ IF ~Found(designs[d], shop)
       THEN /\ req' = [req EXCEPT ![r] = Respond(Begin(r, "delete", shop, d), NotFound)]
            /\ UNCHANGED <<designs, assets>>
       ELSE /\ assets' = deleteByDesign(assets, d)
            /\ designs' = [designs EXCEPT ![d] = NoDesign]
            /\ req' = [req EXCEPT ![r] =
                          Respond([Begin(r, "delete", shop, d) EXCEPT !.writes = 2],
                                  [NoResp EXCEPT !.kind = "ok"])]
    /\ started' = started + 1
    /\ UNCHANGED <<overlap, products, designSerial, assetSerial, productSerial,
                   publishCalls, publishReturned>>
    /\ UNCHANGED notRouteVars

\* ---- GET /designs/:designId/assets ----

\* the whole handler: 404, or the design's assets
ListAssets(r, shop, d) ==
    /\ CanStart(r)
    /\ req' = [req EXCEPT ![r] =
                  IF ~Found(designs[d], shop)
                  THEN Respond(Begin(r, "assets", shop, d), NotFound)
                  ELSE Respond(Begin(r, "assets", shop, d), [NoResp EXCEPT !.kind = "ok"])]
    /\ started' = started + 1
    /\ UNCHANGED <<overlap, designs, assets, products, designSerial, assetSerial,
                   productSerial, publishCalls, publishReturned>>
    /\ UNCHANGED notRouteVars

Next ==
    \/ \E r \in Reqs, shop \in Shops : PrevStart(r, shop)
    \/ \E r \in Reqs : PrevFinish(r)
    \/ \E r \in Reqs, shop \in Shops, d \in DesignIds : MockStart(r, shop, d)
    \/ \E r \in Reqs : MockFinish(r)
    \/ \E r \in Reqs, shop \in Shops, d \in DesignIds : ReviseStart(r, shop, d)
    \/ \E r \in Reqs : ReviseFinish(r)
    \/ \E r \in Reqs, shop \in Shops, d \in DesignIds : FinStart(r, shop, d)
    \/ \E r \in Reqs : FinLifestyle(r)
    \/ \E r \in Reqs : FinCopy(r)
    \/ \E r \in Reqs : FinPublish(r)
    \/ \E r \in Reqs, shop \in Shops, d \in DesignIds : RetryPublishStart(r, shop, d)
    \/ \E r \in Reqs : RetryPublishCopy(r)
    \/ \E r \in Reqs : RetryPublishFinish(r)
    \/ \E r \in Reqs, shop \in Shops, d \in DesignIds : DeleteDesign(r, shop, d)
    \/ \E r \in Reqs, shop \in Shops, d \in DesignIds : ListAssets(r, shop, d)
----------------------------------------------------------------------------
(* POST /generate-mockup: the catalog provider (PrintfulMockupService) and   *)
(* the AI image waterfall behind it.  The store writes of the route are in   *)
(* the routes part; here are the provider calls and their order.             *)

\* the Printful key saved in the shop's settings and the one of the environment
\* (config.defaults), each absent or given; both are stored trimmed
SavedKeys == {"", "saved-key"}

EnvKeys == {"", "env-key"}

\* effectiveKey(savedValue, envDefault): String(savedValue || envDefault || "").trim()
effectiveKey(savedValue, envDefault) ==
    IF savedValue # "" THEN savedValue ELSE envDefault

\* design.rawArtworkUrl || design.previewImageUrl: none, an http(s) URL, a data-URI,
\* a /uploads/ path whose file exists, one whose file is missing
Artworks == {"none", "remote", "data", "local", "missing"}

\* mapped: printfulProductId is given or PRODUCT_MAP holds the design's productType
MockupInputs ==
    [savedKey : SavedKeys, envKey : EnvKeys, artwork : Artworks, mapped : BOOLEAN]

NoMockupInput == [savedKey |-> "", envKey |-> "", artwork |-> "none", mapped |-> FALSE]

\* getEffectiveSettings(session.shopDomain).printfulApiKey
PrintfulApiKey(in) == effectiveKey(in.savedKey, in.envKey)

NoPrintful == [provider |-> "none", mockupUrls |-> 0, threw |-> FALSE]

NoMockupResp == [status |-> 0, provider |-> "none"]

PrintfulFailed(provider) == [provider |-> provider, mockupUrls |-> 0, threw |-> FALSE]

\* generateMockup after the upload: printfiles, create-task, the poll loop; a
\* completed task comes with the mockup URLs it lists (none, one, two)
PrintfulTask ==
    { PrintfulFailed(p) : p \in {"printful-error", "printful-no-variant",
                                 "printful-failed", "printful-timeout",
                                 "printful-exception"} }
    \cup { [provider |-> "printful", mockupUrls |-> n, threw |-> FALSE] : n \in 0..2 }

\* PrintfulMockupService.generateMockup: the results it can give for an input
generateMockup(in) ==
    IF PrintfulApiKey(in) = "" THEN { PrintfulFailed("printful-no-key") }
    ELSE IF ~in.mapped THEN { PrintfulFailed("printful-unsupported") }
    ELSE IF in.artwork = "missing" THEN { PrintfulFailed("printful-upload-failed") }
    ELSE IF in.artwork = "local"
         THEN { [NoPrintful EXCEPT !.threw = TRUE], PrintfulFailed("printful-upload-failed") }
              \cup PrintfulTask
    ELSE IF in.artwork = "data"
         THEN { PrintfulFailed("printful-upload-failed") } \cup PrintfulTask
    ELSE PrintfulTask

\* if (printfulMockupService && settings?.printfulApiKey)
TriesPrintful(in) == PrintfulApiKey(in) # ""

\* a route that goes on to the AI waterfall whatever Printful returned
PrintfulSucceededNever(result) == FALSE

\* printfulResult.provider === "printful" && printfulResult.mockupUrls.length > 0
PrintfulSucceeded(result) == result.provider = "printful" /\ result.mockupUrls > 0

MockupStart ==
    /\ mockupInput \in MockupInputs
    /\ mpc = "route"
    /\ mockupCalls = <<>>
    /\ printfulResult = NoPrintful
    /\ mockupResp = NoMockupResp

MockupIdle ==
    /\ mockupInput = NoMockupInput
    /\ mpc = "idle"
    /\ mockupCalls = <<>>
    /\ printfulResult = NoPrintful
    /\ mockupResp = NoMockupResp

\* the handler up to its first await: 400 without artwork, else Printful when the
\* shop has a key, else the AI waterfall
MockupRoute ==
    /\ mpc = "route"
    /\ IF mockupInput.artwork = "none"
       THEN /\ mpc' = "done"
            /\ mockupResp' = [status |-> 400, provider |-> "none"]
       ELSE /\ mpc' = IF TriesPrintful(mockupInput) THEN "printful" ELSE "ai"
            /\ UNCHANGED mockupResp
    /\ UNCHANGED <<mockupInput, mockupCalls, printfulResult>>
    /\ UNCHANGED notMockupVars

\* await printfulMockupService.generateMockup(..) and the test of its result
MockupPrintful ==
    /\ mpc = "printful"
    /\ mockupCalls' = Append(mockupCalls, "printful")
    /\ \E result \in generateMockup(mockupInput) :
          /\ printfulResult' = result
          /\ IF result.threw
             THEN /\ mpc' = "done"
                  /\ mockupResp' = [status |-> 500, provider |-> "none"]
             ELSE IF PrintfulSucceeded(result)
             THEN /\ mpc' = "done"
                  /\ mockupResp' = [status |-> 200, provider |-> result.provider]
             ELSE /\ mpc' = "ai"
                  /\ UNCHANGED mockupResp
    /\ UNCHANGED mockupInput
    /\ UNCHANGED notMockupVars

\* await pipelineService.generateDesignImage(..) with the mockup prompt, and the
\* response (500 when the call threw)
MockupAi ==
    /\ mpc = "ai"
    /\ mockupCalls' = Append(mockupCalls, "ai")
    /\ \E provider \in DesignImageProviders \cup {"threw"} :
          mockupResp' = IF provider = "threw"
                        THEN [status |-> 500, provider |-> "none"]
                        ELSE [status |-> 200, provider |-> provider]
    /\ mpc' = "done"
    /\ UNCHANGED <<mockupInput, printfulResult>>
    /\ UNCHANGED notMockupVars

NextMockup ==
    \/ MockupRoute
    \/ MockupPrintful
    \/ MockupAi

----------------------------------------------------------------------------
(* The data a shop has in the store, the shop/redact webhook that is to       *)
(* erase it, and the manual token endpoint /set-shopify-token.                *)

\* shopifyAccessToken of a shop's settings entry: no entry, the token stored at
\* install, the token /set-shopify-token was sent
StoredTokens == {"none", "shpat_installed", "shpat_manual"}

NoShopRecords ==
    [design |-> FALSE, asset |-> FALSE, product |-> FALSE, shopifyAccessToken |-> "none"]

\* what the store holds of one shop when the run starts: nothing; the settings
\* entry of an installed shop; that and a design with its asset; that and a
\* published design (design, assets, product record)
ShopRecords ==
    { NoShopRecords,
      [NoShopRecords EXCEPT !.shopifyAccessToken = "shpat_installed"],
      [design |-> TRUE, asset |-> TRUE, product |-> FALSE,
       shopifyAccessToken |-> "shpat_installed"],
      [design |-> TRUE, asset |-> TRUE, product |-> TRUE,
       shopifyAccessToken |-> "shpat_installed"] }

\* the repository holds two createWebhookRouter modules: the one of part_005,
\* which purges, and routes/webhookRoutes.js, whose shop/redact acknowledges only
WebhookFiles == {"part_005", "webhookRoutes.js"}

\* process.env.SETUP_SECRET || ""
SetupSecrets == {"", "s3cret"}

\* what a caller may present as the setup secret
PresentedSecrets == {"", "guess", "s3cret"}

NoCall ==
    [route |-> "none", session |-> "", shop |-> "", secret |-> "", status |-> 0,
     before |-> "none"]

\* _purgeShopData(shopDomain): designRepository.delete for the shop's designs,
\* settingsRepository.deleteByShop; assets and products are not touched
purgeShopData(records) ==
    [records EXCEPT !.design = FALSE, !.shopifyAccessToken = "none"]

\* the shop/redact handler of the loaded module
shopRedact(file, records) ==
    IF file = "part_005" THEN purgeShopData(records) ELSE records

ShopStart ==
    /\ shopRecords \in [Shops -> ShopRecords]
    /\ webhookFile \in WebhookFiles
    /\ setupSecret \in SetupSecrets
    /\ lastCall = NoCall

ShopIdle ==
    /\ shopRecords = [sh \in Shops |-> NoShopRecords]
    /\ webhookFile = "part_005"
    /\ setupSecret = ""
    /\ lastCall = NoCall

\* verifyWebhookHmac answers 401: no HMAC header, or one that does not match
WebhookUnauthorized(shop) ==
    /\ lastCall' = [NoCall EXCEPT !.route = "shop/redact", !.shop = shop, !.status = 401,
                                  !.before = shopRecords[shop].shopifyAccessToken]
    /\ UNCHANGED <<shopRecords, webhookFile, setupSecret>>
    /\ UNCHANGED notShopVars

\* POST /webhooks/shop/redact with a valid HMAC
ShopRedact(shop) ==
    /\ shopRecords' = [shopRecords EXCEPT ![shop] = shopRedact(webhookFile, @)]
    /\ lastCall' = [NoCall EXCEPT !.route = "shop/redact", !.shop = shop, !.status = 200,
                                  !.before = shopRecords[shop].shopifyAccessToken]
    /\ UNCHANGED <<webhookFile, setupSecret>>
    /\ UNCHANGED notShopVars

\* the shop whose token /set-shopify-token writes: String(shop || session.shopDomain)
targetShop(shop, sessionShop) == IF shop = "" THEN sessionShop ELSE shop

\* POST /set-shopify-token: 401 without session, 400 without token, else
\* settingsRepository.upsertByShop(targetShop, { shopifyAccessToken, installedAt })
SetShopifyToken(sessionShop, shop, token, secret) ==
    LET target == targetShop(shop, sessionShop)
        call == [NoCall EXCEPT !.route = "set-shopify-token", !.session = sessionShop,
                               !.shop = IF sessionShop = "" THEN shop ELSE target,
                               !.secret = secret]
    IN  /\ IF sessionShop = ""
           THEN /\ lastCall' = [call EXCEPT !.status = 401]
                /\ UNCHANGED shopRecords
           ELSE IF token = ""
           THEN /\ lastCall' = [call EXCEPT !.status = 400,
                                            !.before = shopRecords[target].shopifyAccessToken]
                /\ UNCHANGED shopRecords
           ELSE /\ lastCall' = [call EXCEPT !.status = 200,
                                            !.before = shopRecords[target].shopifyAccessToken]
                /\ shopRecords' = [shopRecords EXCEPT ![target].shopifyAccessToken = token]
        /\ UNCHANGED <<webhookFile, setupSecret>>
        /\ UNCHANGED notShopVars

NextShop ==
    \/ \E shop \in Shops : WebhookUnauthorized(shop)
    \/ \E shop \in Shops : ShopRedact(shop)
    \/ \E sessionShop \in Shops \cup {""}, shop \in Shops \cup {""},
          token \in {"", "shpat_manual"}, secret \in PresentedSecrets :
          SetShopifyToken(sessionShop, shop, token, secret)

----------------------------------------------------------------------------
(* storage/pgStore.js: PostgresStore after waitForReady.  A store state is    *)
(* named by the number of the write() call that wrote it.                     *)

NoRead == [value |-> -1, afterWrite |-> -1]

\* a query handed to pool.query: JSON.stringify(this._cache) is taken when
\* _persist is called
Query(data, by) == [data |-> data, by |-> by, state |-> "sent"]

\* the queries not answered yet; the pool runs them on its connections in any order
Sent == { i \in 1..Len(persists) : persists[i].state = "sent" }

PgStart ==
    /\ cache = 0
    /\ dbRow = 0
    /\ persists = <<>>
    /\ writeCount = 0
    /\ lastRead = NoRead

PgIdle ==
    /\ cache = 0
    /\ dbRow = 0
    /\ persists = <<>>
    /\ writeCount = 0
    /\ lastRead = NoRead

\* write(nextState): the cache is replaced and _persist() is started
PgWrite ==
    /\ Len(persists) < MaxQueries
    /\ cache' = writeCount + 1
    /\ writeCount' = writeCount + 1
    /\ persists' = Append(persists, Query(writeCount + 1, "write"))
    /\ UNCHANGED <<dbRow, lastRead>>
    /\ UNCHANGED notPgVars

\* read(): a copy of the cache
PgRead ==
    /\ lastRead' = [value |-> cache, afterWrite |-> writeCount]
    /\ UNCHANGED <<cache, dbRow, persists, writeCount>>
    /\ UNCHANGED notPgVars

\* flush(): _persist() of the cache as it is
PgFlush ==
    /\ Len(persists) < MaxQueries
    /\ persists' = Append(persists, Query(cache, "flush"))
    /\ UNCHANGED <<cache, dbRow, writeCount, lastRead>>
    /\ UNCHANGED notPgVars

\* one of the UPDATE queries is executed: the row takes its data
PersistDone(i) ==
    /\ i \in Sent
    /\ dbRow' = persists[i].data
    /\ persists' = [persists EXCEPT ![i].state = "done"]
    /\ UNCHANGED <<cache, writeCount, lastRead>>
    /\ UNCHANGED notPgVars

\* one of the UPDATE queries is rejected: the error is logged (write) or thrown
\* to the caller (flush)
PersistFailed(i) ==
    /\ i \in Sent
    /\ persists' = [persists EXCEPT ![i].state = "failed"]
    /\ UNCHANGED <<cache, dbRow, writeCount, lastRead>>
    /\ UNCHANGED notPgVars

NextPg ==
    \/ PgWrite
    \/ PgRead
    \/ PgFlush
    \/ \E i \in 1..MaxQueries : PersistDone(i)
    \/ \E i \in 1..MaxQueries : PersistFailed(i)

----------------------------------------------------------------------------
(* Specifications *)

InitRetry ==
    RetryStart /\ ImageIdle /\ LifestyleIdle /\ CopyIdle /\ MockupIdle /\ ShopIdle /\ PgIdle /\ RoutesIdle

SpecRetry == InitRetry /\ [][NextRetry]_vars

InitImage ==
    ImageStart /\ RetryIdle /\ LifestyleIdle /\ CopyIdle /\ MockupIdle /\ ShopIdle /\ PgIdle /\ RoutesIdle

SpecImage == InitImage /\ [][NextImage]_vars

InitLifestyle ==
    LifestyleStart /\ RetryIdle /\ ImageIdle /\ CopyIdle /\ MockupIdle /\ ShopIdle /\ PgIdle /\ RoutesIdle

SpecLifestyle == InitLifestyle /\ [][NextLifestyle]_vars

InitCopy ==
    CopyStart /\ RetryIdle /\ ImageIdle /\ LifestyleIdle /\ MockupIdle /\ ShopIdle /\ PgIdle /\ RoutesIdle

SpecCopy == InitCopy /\ [][NextCopy]_vars

InitMockup ==
    MockupStart /\ RetryIdle /\ ImageIdle /\ LifestyleIdle /\ CopyIdle /\ ShopIdle /\ PgIdle
    /\ RoutesIdle

SpecMockup == InitMockup /\ [][NextMockup]_vars

InitShop ==
    ShopStart /\ RetryIdle /\ ImageIdle /\ LifestyleIdle /\ CopyIdle /\ MockupIdle
    /\ PgIdle /\ RoutesIdle

SpecShop == InitShop /\ [][NextShop]_vars

InitPg ==
    PgStart /\ RetryIdle /\ ImageIdle /\ LifestyleIdle /\ CopyIdle /\ MockupIdle
    /\ ShopIdle /\ RoutesIdle

SpecPg == InitPg /\ [][NextPg]_vars

\* the pod routes, requests overlapping at their awaits
Init ==
    RoutesStart(TRUE) /\ RetryIdle /\ ImageIdle /\ LifestyleIdle /\ CopyIdle /\ MockupIdle
    /\ ShopIdle /\ PgIdle

Spec == Init /\ [][Next]_vars

\* the pod routes, one request at a time
InitSeq ==
    RoutesStart(FALSE) /\ RetryIdle /\ ImageIdle /\ LifestyleIdle /\ CopyIdle /\ MockupIdle
    /\ ShopIdle /\ PgIdle

SpecSeq == InitSeq /\ [][Next]_vars

----------------------------------------------------------------------------
(* Claims on generateDesignImage and the poll loop (SpecImage) *)

KieRequested == \E i \in 1..Len(requests) : requests[i].tier = "kie"

\* C4: the tiers are tried in the order OpenAI (edit, then generate), KIE, placeholder;
\* once OpenAI returned an image no KIE request (submit or status) is made, and the
\* placeholder is returned only when neither provider produced an image.
C4_WaterfallShortCircuit ==
    /\ \A i \in 1..Len(requests), j \in 1..Len(requests) :
          i < j =>
            /\ ~(requests[i].tier = "kie" /\ requests[j].tier = "openai")
            /\ ~(requests[i].op = "generate" /\ requests[j].op = "edit")
    /\ openAiImageUrl => ~KieRequested /\ statusCalls = 0
    /\ dpc = "done" /\ openAiImageUrl => dResult.provider = "openai"
    /\ dResult.image = "placeholder" => ~openAiImageUrl /\ kieOutcome # "image"
    /\ kieOutcome = "image" => dResult.provider = "kie"

\* OpenAI returned an image on the generate call after a failed edit, with a live KIE key
C4_Witness ==
    /\ dpc = "done"
    /\ dResult.provider = "openai"
    /\ isUsableApiKey(dInput.keiAiApiKey)
    /\ Len(requests) >= 2
    /\ requests[1].op = "edit"
    /\ requests[Len(requests)].op = "generate"

\* C5 as stated: with interval I > 0 and deadline D > 0 the poll loop issues at most
\* floor(D/I) status requests, and ends timed out when every response was pending.
C5_AtMostFloorStatusCalls ==
    dInput.pollIntervalMs > 0 /\ dInput.maxWaitMs > 0 =>
        /\ statusCalls <= dInput.maxWaitMs \div dInput.pollIntervalMs
        /\ dpc = "done" /\ statusCalls > 0 /\ allPending => kieOutcome = "timedout"

\* C5 amended: at most max(1, floor(D/I)) status requests (one request is made even
\* when D < I), and a run whose status responses were all pending ends timed out.
C5_AtMostMaxOneFloorStatusCalls ==
    dInput.pollIntervalMs > 0 /\ dInput.maxWaitMs > 0 =>
        /\ statusCalls <= (IF dInput.maxWaitMs \div dInput.pollIntervalMs >= 1
                           THEN dInput.maxWaitMs \div dInput.pollIntervalMs
                           ELSE 1)
        /\ dpc = "done" /\ statusCalls > 0 /\ allPending => kieOutcome = "timedout"

\* a deadline shorter than the interval: one status request, then timed out
C5_Witness ==
    /\ dInput.pollIntervalMs > dInput.maxWaitMs
    /\ dInput.maxWaitMs > 0
    /\ statusCalls = 1
    /\ allPending
    /\ kieOutcome = "timedout"

----------------------------------------------------------------------------
(* Claims on retryWithBackoff and the publish retry wrapper (SpecRetry) *)

\* C6: fn is invoked at most maxRetries + 1 times whatever fails and whatever
\* shouldRetry answers, and never again after an invocation that returned.
C6_AtMostMaxRetriesPlusOneCalls ==
    /\ fnCalls <= maxRetries + 1
    /\ okCalls <= 1
    /\ okCalls = 1 => rpc = "returned"
    /\ rpc = "returned" => okCalls = 1 /\ fnCalls = attempt + 1

\* every allowed attempt was used and the last one returned
C6_Witness ==
    /\ rpc = "returned"
    /\ maxRetries = 2
    /\ fnCalls = maxRetries + 1
    /\ customPredicate

\* C7: the delay slept after failed attempt k lies in
\* [baseDelayMs * 2^k, baseDelayMs * 2^k + 500), and no delay follows the last allowed
\* attempt (attempt number maxRetries).
C7_BackoffDelayWindow ==
    /\ slept # NoSleep =>
          /\ slept.ms >= baseDelayMs * Pow2(slept.k)
          /\ slept.ms < baseDelayMs * Pow2(slept.k) + 500
          /\ slept.k >= 0
          /\ slept.k < maxRetries
    /\ sleeps <= Max(0, maxRetries)
    /\ rpc \in {"returned", "threw"} /\ fnCalls > 0 => sleeps = fnCalls - 1

\* the publish wrapper slept its second backoff with the largest jitter
C7_Witness ==
    /\ caller = "publish"
    /\ slept.k = 1
    /\ slept.ms = 2 * PublishBaseDelayMs + JitterMs - 1
    /\ rpc = "threw"
    /\ fnCalls = 3

\* C8: the publish wrapper re-attempts only after a network-class error, an HTTP 429
\* or an HTTP 5xx response; a validation failure (a 4xx other than 429) is never
\* retried, whatever its message says.
C8_RetriesOnlyTransientErrors ==
    caller = "publish" /\ retriedCause # NoCause =>
        \/ retriedCause.cls = "network"
        \/ /\ retriedCause.cls = "http"
           /\ \/ retriedCause.status = 429
              \/ (retriedCause.status >= 500 /\ retriedCause.status <= 599)

----------------------------------------------------------------------------
(* Claims on the lifestyle images of finalize-product (SpecLifestyle) *)

\* C10: a finalize-product response holds exactly one lifestyle image per scene prompt
\* (three when none is requested), whatever fails per scene and even when
\* generateLifestyleImages itself throws.
C10_OneLifestyleImagePerPrompt ==
    lpc = "done" /\ ~lifestyle.fatal =>
        /\ Len(lifestyle.imageUrls) = SceneCount(scenario.requested)
        /\ \A k \in 1..Len(lifestyle.imageUrls) :
              lifestyle.imageUrls[k] \in {"openai", "kie", "placeholder"}

----------------------------------------------------------------------------
(* Claims on the pod routes (Spec, SpecSeq) *)

\* the step starts a request of this kind in handler slot r
Starts(kind, r) ==
    /\ started' = started + 1
    /\ ~InFlight(r)
    /\ \A q \in Reqs : q < r => InFlight(q)
    /\ req'[r].kind = kind

\* C1: over requests served one at a time (design-preview, generate-mockup,
\* revise-design, finalize-product, retry-publish), publishService.publish returns
\* a product for a design at most once
C1_AtMostOnePublishPerDesign == \A d \in DesignIds : publishReturned[d] <= 1

\* C2: a finalize-product request on a design whose stored status is published
\* ends at once: no image, copy or publish call, the store left as it was, and
\* the stored shopifyProductId and adminUrl in the response with alreadyPublished
C2_PublishedFinalizeShortCircuits ==
    [][\A r \in Reqs :
          LET d == req'[r].designId
          IN  (/\ Starts("finalize", r)
               /\ Found(designs[d], req'[r].shop)
               /\ designs[d].status = "published")
              => /\ req'[r].pc = "done"
                 /\ req'[r].resp.kind = "ok"
                 /\ req'[r].resp.alreadyPublished
                 /\ req'[r].resp.productId = designs[d].shopifyProductId
                 /\ req'[r].resp.adminUrl = designs[d].adminUrl
                 /\ req'[r].resp.productId # 0
                 /\ req'[r].calls = NoCalls
                 /\ req'[r].writes = 0
                 /\ UNCHANGED <<designs, assets, products, publishCalls, productSerial>>]_vars

C2_Witness ==
    \E r \in Reqs :
        /\ req[r].kind = "finalize" /\ req[r].pc = "done"
        /\ req[r].resp.alreadyPublished
        /\ designs[req[r].designId].status = "published"
        /\ req[r].resp.productId = designs[req[r].designId].shopifyProductId
        /\ req[r].calls = NoCalls

\* C3: nothing but the stored status keeps a finalize-product request from
\* publishing: a request that finds its design not published passes the guard
\* whatever other requests are in flight, and once its listing copy is in it
\* calls publishService.publish; so two requests on one unpublished design can
\* both have called publish before either writes a status (C3_Witness)
C3_NoLockBeforePublish ==
    [][\A r \in Reqs :
          LET d == req'[r].designId
          IN  /\ (/\ Starts("finalize", r)
                  /\ Found(designs[d], req'[r].shop)
                  /\ ~(designs[d].status = "published" /\ designs[d].shopifyProductId # 0))
                 => req'[r].pc = "lifestyle"
              /\ (/\ req[r].kind = "finalize" /\ req[r].pc = "copy"
                  /\ req'[r] # req[r])
                 => /\ req'[r].pc = "publish"
                    /\ publishCalls'[req[r].designId] = publishCalls[req[r].designId] + 1]_vars

C3_Witness ==
    \E r1, r2 \in Reqs :
        /\ r1 # r2
        /\ req[r1].kind = "finalize" /\ req[r2].kind = "finalize"
        /\ req[r1].designId = req[r2].designId
        /\ req[r1].pc = "publish" /\ req[r2].pc = "publish"
        /\ req[r1].calls.publish = 1 /\ req[r2].calls.publish = 1
        /\ ~AlreadyPublished(req[r1].design) /\ ~AlreadyPublished(req[r2].design)
        /\ designs[req[r1].designId].status = "preview_ready"
        /\ publishCalls[req[r1].designId] = 2

\* C9: when publishService.publish throws in finalize-product, the response is
\* the success response with productId null and a publishError, never the fatal
\* one, and the stored design (if it has not been deleted meanwhile) gets status
\* finalized
C9_PublishThrowStillFinalizes ==
    [][\A r \in Reqs :
          LET d == req[r].designId
          IN  (/\ req[r].kind = "finalize" /\ req[r].pc = "publish"
               /\ req'[r].pc = "done"
               /\ req'[r].publishThrew)
              => /\ req'[r].resp.kind = "ok"
                 /\ req'[r].resp.productId = 0
                 /\ req'[r].resp.adminUrl = 0
                 /\ req'[r].resp.publishError
                 /\ designs[d].exists => /\ designs'[d].status = "finalized"
                                         /\ designs'[d].finalizedAt]_vars

C9_Witness ==
    \E r \in Reqs :
        /\ req[r].kind = "finalize" /\ req[r].pc = "done"
        /\ req[r].publishThrew
        /\ req[r].resp.kind = "ok" /\ req[r].resp.publishError
        /\ req[r].resp.productId = 0
        /\ designs[req[r].designId].status = "finalized"

\* C11: a retry-publish request makes no image-generation or artwork-extraction
\* call, sends no request to the listing-copy provider and creates no asset
C11_RetryPublishOnlyPublishes ==
    [][\A r \in Reqs :
          (req'[r].kind = "retry-publish" /\ req'[r] # req[r])
          => /\ req'[r].calls.image = 0
             /\ req'[r].calls.copyFetches = 0
             /\ assets' = assets]_vars

\* C12: finalizedAt of a design is written at most once, over any sequence of
\* finalize-product and retry-publish requests
C12_FinalizedAtWrittenOnce ==
    \A d \in DesignIds : designs[d].finalizedAtWrites <= 1

\* C13: a finalize-product request on a design whose stored status is finalized
\* ends at once with the cached result: no image, copy or publish call
C13_FinalizedFinalizeShortCircuits ==
    [][\A r \in Reqs :
          LET d == req'[r].designId
          IN  (/\ Starts("finalize", r)
               /\ Found(designs[d], req'[r].shop)
               /\ designs[d].status = "finalized")
              => /\ req'[r].pc = "done"
                 /\ req'[r].resp.kind = "ok"
                 /\ req'[r].calls = NoCalls]_vars

\* C14: every successful revise-design request leaves the design's revisionCount
\* one above what it was, whatever other requests are in flight
C14_ReviseAddsOneToRevisionCount ==
    [][\A r \in Reqs :
          LET d == req[r].designId
          IN  (/\ req[r].kind = "revise" /\ req[r].pc = "revise_image"
               /\ req'[r].pc = "done" /\ req'[r].resp.kind = "ok"
               /\ designs[d].exists)
              => designs'[d].revisionCount = designs[d].revisionCount + 1]_vars

\* C15: in every store state a design whose status is published has a non-empty
\* shopifyProductId
C15_PublishedHasProductId ==
    \A d \in DesignIds :
        (designs[d].exists /\ designs[d].status = "published")
        => designs[d].shopifyProductId # 0

C15_Witness ==
    \E d \in DesignIds, r \in Reqs :
        /\ designs[d].exists /\ designs[d].status = "published"
        /\ designs[d].shopifyProductId = productSerial
        /\ productSerial > 0
        /\ req[r].kind = "retry-publish" /\ req[r].pc = "done"
        /\ req[r].resp.productId = designs[d].shopifyProductId

\* as is a prefix of bs
IsPrefix(as, bs) == Len(as) <= Len(bs) /\ SubSeq(bs, 1, Len(as)) = as

\* C16: a step of design-preview, generate-mockup, revise-design, finalize-product
\* (any step but a design deletion) keeps every asset record as it is and in
\* place; a successful revise-design adds exactly one asset and makes it the
\* design's currentDesignAssetId
C16_AssetsAppendOnly ==
    [][/\ (\E r \in Reqs : Starts("delete", r)) \/ IsPrefix(assets, assets')
       /\ \A r \in Reqs :
             LET d == req[r].designId
             IN  (/\ req[r].kind = "revise" /\ req[r].pc = "revise_image"
                  /\ req'[r].pc = "done" /\ req'[r].resp.kind = "ok")
                 => /\ Len(assets') = Len(assets) + 1
                    /\ assets'[Len(assets')].designId = d
                    /\ assets'[Len(assets')].id \notin {assets[i].id : i \in 1..Len(assets)}
                    /\ designs[d].exists
                       => designs'[d].currentDesignAssetId = assets'[Len(assets')].id]_vars

C16_Witness ==
    \E r \in Reqs :
        /\ req[r].kind = "revise" /\ req[r].pc = "done" /\ req[r].resp.kind = "ok"
        /\ Len(assets) >= 2
        /\ assets[Len(assets)].role = "revision"
        /\ designs[req[r].designId].currentDesignAssetId = assets[Len(assets)].id

\* C17: the store holds at most one product record per design
C17_OneProductRecordPerDesign ==
    \A i, j \in 1..Len(products) :
        products[i].designId = products[j].designId => i = j

C17_Witness ==
    \E d \in DesignIds :
        /\ publishReturned[d] >= 2
        /\ Len(products) = 1
        /\ products[1].designId = d
        /\ products[1].productId = productSerial

\* the status changes of the design state machine: creation, revise back to
\* preview_ready, and preview_ready -> mockup_ready -> finalizing ->
\* finalized | published
StatusPath ==
    { << "", "preview_ready" >>, << "preview_ready", "mockup_ready" >>,
      << "mockup_ready", "finalizing" >>, << "finalizing", "finalized" >>,
      << "finalizing", "published" >>, << "mockup_ready", "preview_ready" >>,
      << "finalized", "preview_ready" >>, << "published", "preview_ready" >> }

\* C18: a design's status changes only along the state machine, and a successful
\* generate-mockup leaves the design in mockup_ready
C18_StatusFollowsStateMachine ==
    [][/\ \A d \in DesignIds :
             \/ designs'[d].status = designs[d].status
             \/ ~designs'[d].exists
             \/ << designs[d].status, designs'[d].status >> \in StatusPath
       /\ \A r \in Reqs :
             (/\ req[r].kind = "mockup" /\ req[r].pc = "mockup_image"
              /\ req'[r].pc = "done" /\ req'[r].resp.kind = "ok"
              /\ designs[req[r].designId].exists)
             => designs'[req[r].designId].status = "mockup_ready"]_vars

----------------------------------------------------------------------------
(* Claims on generateListingCopy (SpecCopy) *)

\* the copy provider gave no listing copy: no usable key, a transport exception,
\* a status that is not 2xx, a body or a content that is not JSON, or a content
\* that is not a JSON object
CopyProviderFailed(in) ==
    \/ ~isUsableApiKey(in.key)
    \/ in.status = 0
    \/ in.status < 200 \/ in.status > 299
    \/ ~in.bodyIsJson
    \/ in.content.kind # "object"

\* C19: generateListingCopy never throws, and when the copy provider failed or
\* no usable key is configured it returns a non-empty title, a non-empty
\* description and tags that contain the product type
C19_CopyFallbackComplete ==
    cpc = "done" =>
        /\ ~copyResult.threw
        /\ CopyProviderFailed(copyInput) =>
              /\ copyResult.title # ""
              /\ copyResult.descriptionText # ""
              /\ copyResult.descriptionHtml # <<>>
              /\ \E i \in 1..Len(copyResult.tags) :
                    copyResult.tags[i] = copyInput.productType

C19_Witness ==
    /\ cpc = "done"
    /\ isUsableApiKey(copyInput.key)
    /\ copyInput.status = 500
    /\ copyInput.content.kind = "object" /\ copyInput.content.title = " "
    /\ copyResult.fetches = 1
    /\ copyResult.provider = "fallback-error"
    /\ copyResult.title = "MUG - cat"
    /\ copyResult.tags = << "ai-generated", "pod", "mug" >>

----------------------------------------------------------------------------
(* Claims on the entry of ShopifyPublishService.publish (SpecRetry) *)

\* C20: when neither the shop's settings nor the environment hold an access
\* token, publish runs no attempt (no network call), does not throw, and returns
\* the mock product id with the shop's admin products URL
C20_NoTokenReturnsMock ==
    (/\ caller = "publish"
     /\ tokens.shop \in {"none", ""} /\ tokens.env = ""
     /\ rpc # "entry")
    => /\ rpc = "mock"
       /\ fnCalls = 0
       /\ productsCreated = 0
       /\ publishResult = MockProduct

C20_Witness ==
    /\ caller = "publish"
    /\ tokens = [shop |-> "", env |-> ""]
    /\ rpc = "mock"
    /\ publishResult.productId = "mock"
    /\ publishResult.adminUrl = "products"
    /\ fnCalls = 0

\* C21: publish uses the shop's stored access token whenever a non-empty one
\* is stored, and the global token only when the shop has none stored
C21_StoredTokenFirst ==
    (caller = "publish" /\ rpc \notin {"idle", "entry"})
    => /\ tokens.shop \notin {"none", ""} => accessToken = tokens.shop
       /\ accessToken = tokens.env /\ tokens.env # "" => tokens.shop \in {"none", ""}

----------------------------------------------------------------------------
(* Claims on the requests of generateDesignImage (SpecImage) *)

\* C22: the size sent to OpenAI and the ratio sent to KIE follow the shape exactly:
\* square 1024x1024 and 1:1, portrait 1024x1536 and 3:4, landscape 1536x1024 and
\* 4:3, tall_portrait 1024x1536 and 2:3, wide_landscape 1536x1024 and 3:2
C22_ShapeMapsExact ==
    \A i \in 1..Len(requests) :
        LET sh == dInput.imageShape
            r == requests[i]
        IN  /\ r.tier = "openai" =>
                 /\ sh = "square" => r.size = "1024x1024"
                 /\ sh = "portrait" => r.size = "1024x1536"
                 /\ sh = "landscape" => r.size = "1536x1024"
                 /\ sh = "tall_portrait" => r.size = "1024x1536"
                 /\ sh = "wide_landscape" => r.size = "1536x1024"
            /\ r.tier = "kie" =>
                 /\ sh = "square" => r.size = "1:1"
                 /\ sh = "portrait" => r.size = "3:4"
                 /\ sh = "landscape" => r.size = "4:3"
                 /\ sh = "tall_portrait" => r.size = "2:3"
                 /\ sh = "wide_landscape" => r.size = "3:2"

\* a tall_portrait call that sent a request to OpenAI and one to KIE
C22_Witness ==
    /\ dInput.imageShape = "tall_portrait"
    /\ Len(requests) >= 2
    /\ requests[1].tier = "openai" /\ requests[1].size = "1024x1536"
    /\ requests[Len(requests)].tier = "kie" /\ requests[Len(requests)].size = "2:3"

OpenAiRequests == { i \in 1..Len(requests) : requests[i].tier = "openai" }

LowModel(op) == IF op = "edit" THEN "dall-e-2" ELSE "dall-e-3"

C24_NoFurtherPrimaryRequest ==
    \A i \in OpenAiRequests :
        requests[i].answer \in {"exception", "error"}
            => \A j \in OpenAiRequests : j <= i

\* C25: a KIE result is returned only with an image: a status with a success flag
\* and no image URL is never accepted (the poll goes on), and a status with an image
\* URL and no failure flag is accepted even without a success flag
C25_KieAcceptsOnlyWithImage ==
    /\ kieOutcome = "image" => /\ dResult.image = "kie"
                               /\ statusCalls > 0 => kieLast.image
    /\ (statusCalls > 0 /\ kieLast.ok /\ ~kieLast.codeError
        /\ kieLast.successFlag \in {1, 200} /\ ~kieLast.image)
       => /\ kieOutcome \notin {"image", "failed"}
          /\ dpc = "kie_poll" \/ kieOutcome = "timedout"
    /\ (statusCalls > 0 /\ kieLast.ok /\ ~kieLast.codeError
        /\ kieLast.image /\ kieLast.successFlag \notin {2, 3})
       => kieOutcome = "image" /\ dResult.provider = "kie"

\* an image accepted from a status that has no success flag, on the second status
\* request or a later one
C25_Witness ==
    /\ kieOutcome = "image"
    /\ statusCalls >= 2
    /\ kieLast.image
    /\ kieLast.successFlag = NullFlag

\* C26: a polled status with a failure flag (create failed, generate failed) ends
\* the poll at once, image URL or not, and the failure carries the provider's
\* error message
C26_FailureFlagStopsPolling ==
    (statusCalls > 0 /\ kieLast.ok /\ ~kieLast.codeError /\ kieLast.successFlag \in {2, 3})
    => /\ dpc = "done"
       /\ kieOutcome = "failed"
       /\ dResult.provider = "fallback-error"
       /\ kieLast.errorMessage => dResult.message = "provider message"

\* a generate-failed status that also carries an image URL and an error message
C26_Witness ==
    /\ statusCalls > 0
    /\ kieLast.ok
    /\ kieLast.successFlag = 3
    /\ kieLast.image
    /\ kieLast.errorMessage
    /\ kieOutcome = "failed"
    /\ dResult.message = "provider message"

\* what tells results apart in kind: the provider tag and the kind of image
ResultKind(r) == <<r.provider, r.image>>

\* C27: the result generateDesignImage returns after a timed-out poll differs in
\* kind from the one it returns after an explicit provider failure
C27_TimeoutDistinctFromFailure ==
    (dpc = "done" /\ kieOutcome = "timedout")
    => ResultKind(dResult) # ResultKind([provider |-> "fallback-error",
                                         image |-> "placeholder",
                                         message |-> "provider message"])

\* C28: every image accepted from a provider records exactly one cost entry, keyed
\* by the provider, the model and the operation, in the running application
C28_AcceptedImageHasCostEntry ==
    (dpc = "done" /\ dResult.provider \in {"openai", "kie"})
    => /\ Len(costEntries) = 1
       /\ costEntries[1].provider = dResult.provider

----------------------------------------------------------------------------
(* Claims on the provider sweep of the lifestyle step (SpecLifestyle) *)

\* the scene prompts OpenAI gave an image for in generateLifestyleImages
Satisfied ==
    { k \in 1..SceneCount(scenario.requested) : scenario.openAiKey /\ scenario.openAi1[k] }

\* C29: when OpenAI satisfied only some of the scene prompts, only the other prompts
\* are sent to the alternate provider and the images OpenAI made are kept
C29_OnlyUnsatisfiedPromptsRetried ==
    (/\ lpc = "done"
     /\ ~lifestyle.fatal
     /\ scenario.kieKey
     /\ Satisfied # {}
     /\ Satisfied # 1..SceneCount(scenario.requested))
    => /\ lifestyle.kieSent \cap Satisfied = {}
       /\ lifestyle.sweepSent \cap Satisfied = {}
       /\ \A k \in Satisfied :
             /\ k <= Len(lifestyle.imageUrls)
             /\ lifestyle.imageUrls[k] = "openai"

----------------------------------------------------------------------------
(* Claims on the provider choice of generate-mockup (SpecMockup) *)

\* C30: generate-mockup calls Printful first whenever the shop has a Printful key,
\* calls the AI waterfall only when there is no key or Printful did not return
\* provider "printful" with at least one mockup URL, and makes no AI call when
\* Printful succeeded
C30_PrintfulBeforeAi ==
    /\ (PrintfulApiKey(mockupInput) # "" /\ mockupCalls # <<>>)
          => mockupCalls[1] = "printful"
    /\ (\E i \in 1..Len(mockupCalls) : mockupCalls[i] = "ai")
          => \/ PrintfulApiKey(mockupInput) = ""
             \/ /\ mockupCalls = << "printful", "ai" >>
                /\ ~(printfulResult.provider = "printful" /\ printfulResult.mockupUrls >= 1)
    /\ (printfulResult.provider = "printful" /\ printfulResult.mockupUrls >= 1)
          => /\ mockupCalls = << "printful" >>
             /\ mpc = "done"
             /\ mockupResp = [status |-> 200, provider |-> "printful"]
    /\ (mpc = "done" /\ PrintfulApiKey(mockupInput) = "")
          => \A i \in 1..Len(mockupCalls) : mockupCalls[i] # "printful"

\* a completed Printful task without mockup URLs, and the AI waterfall after it
C30_Witness ==
    /\ mpc = "done"
    /\ printfulResult.provider = "printful"
    /\ printfulResult.mockupUrls = 0
    /\ mockupCalls = << "printful", "ai" >>
    /\ mockupResp.status = 200

----------------------------------------------------------------------------
(* Claims on the publish attempt of ShopifyPublishService (SpecRetry): the   *)
(* function publish hands to retryWithBackoff, in the class of part_002      *)

\* the requests of the last attempt made to the interface api
CallsTo(api) == { i \in 1..Len(attemptCalls) : attemptCalls[i].api = api }

InAttempt == caller = "publish" /\ publishFile = "part_002" /\ attemptCalls # <<>>

\* C31: within one publish attempt the GraphQL productCreate request comes first
\* and carries no images, and the REST create request is made if and only if
\* GraphQL did not yield a product id (HTTP error, GraphQL errors, user errors,
\* transport failure, payload without product)
C31_RestCreateIffNoGraphqlProduct ==
    InAttempt =>
       /\ CallsTo("graphql") = {1}
       /\ attemptCalls[1].images = <<>>
       /\ attemptCalls[1].outcome \in
             {"product", "noproduct", "http", "errors", "userErrors", "network"}
       /\ (CallsTo("rest-create") # {}) <=> (attemptCalls[1].outcome # "product")
       /\ CallsTo("rest-create") \subseteq {2}

\* an attempt whose productCreate answered with user errors and whose REST create
\* gave the product, images inline
C31_Witness ==
    /\ InAttempt
    /\ rpc = "returned"
    /\ attemptCalls[1].outcome = "userErrors"
    /\ Len(attemptCalls) = 2
    /\ attemptCalls[2] = ShopifyCall("rest-create", << "design", "lifestyle" >>, "product")

\* C32: when the GraphQL creation gave the product, each image of the list is
\* attached by a REST request of its own, in list order, whatever the earlier
\* attachment requests ended in, and publish returns the created product without
\* another attempt, even if every attachment failed
C32_EveryImageAttachedFailuresTolerated ==
    (InAttempt /\ attemptCalls[1].outcome = "product") =>
       /\ Len(attemptCalls) = 1 + Len(publishImages)
       /\ \A i \in 1..Len(publishImages) :
             /\ attemptCalls[1 + i].api = "rest-image"
             /\ attemptCalls[1 + i].images = << publishImages[i] >>
       /\ rpc = "returned"
       /\ publishResult = CreatedProduct
       /\ okCalls = 1
       /\ lastError = NoError \/ fnCalls > 1

\* two images, the first attachment answered with an HTTP error, the second one's
\* fetch rejected; publish returned the product for all that
C32_Witness ==
    /\ InAttempt
    /\ attemptCalls = << ShopifyCall("graphql", <<>>, "product"),
                         ShopifyCall("rest-image", << "design" >>, "http"),
                         ShopifyCall("rest-image", << "lifestyle" >>, "exception") >>
    /\ rpc = "returned"
    /\ publishResult = CreatedProduct

\* the requests of the last attempt that returned a created product
Creations ==
    { i \in 1..Len(attemptCalls) :
         /\ attemptCalls[i].api \in {"graphql", "rest-create"}
         /\ attemptCalls[i].outcome = "product" }

\* C33: one publish call obtains at most one created product over both creation
\* tiers and all attempts: no REST create follows a GraphQL creation that
\* returned a product, and another attempt starts only after an attempt in which
\* neither creation returned a product
C33_AtMostOneProductPerPublish ==
    [][ caller = "publish" =>
          /\ productsCreated' <= 1
          /\ \A i \in 1..Len(attemptCalls') :
                (attemptCalls'[i].api = "rest-create")
                   => \A j \in 1..(i - 1) : attemptCalls'[j].outcome # "product"
          /\ (attempt' # attempt)
                => /\ Creations' = {}
                   /\ productsCreated' = 0 ]_vars

\* the third attempt of a publish call returned the one product
C33_Witness ==
    /\ caller = "publish"
    /\ rpc = "returned"
    /\ attempt = 2
    /\ fnCalls = 3
    /\ productsCreated = 1
    /\ Creations # {}

----------------------------------------------------------------------------
(* Claims on the published design and its product record (Spec, SpecSeq) *)

\* C34: in every store state a design whose status is published has a finalizedAt,
\* whatever sequence of design-preview, revise-design, finalize-product and
\* retry-publish requests was served
C34_PublishedHasFinalizedAt ==
    \A d \in DesignIds :
        (designs[d].exists /\ designs[d].status = "published")
        => designs[d].finalizedAt

\* C35: after any interleaving of finalize-product and retry-publish requests on a
\* design, whenever its status is published the store holds a product record of
\* the design whose productId and adminUrl are the design's shopifyProductId and
\* adminUrl
C35_PublishedMatchesProductRecord ==
    \A d \in DesignIds :
        (designs[d].exists /\ designs[d].status = "published")
        => /\ \E i \in 1..Len(products) : products[i].designId = d
           /\ findByDesign(products, d).productId = designs[d].shopifyProductId
           /\ findByDesign(products, d).adminUrl = designs[d].adminUrl

\* a finalize and a retry-publish of one design overlapped, both published, and
\* the record and the design name the product published last
C35_Witness ==
    \E d \in DesignIds, r, q \in Reqs :
        /\ req[r].kind = "finalize" /\ req[r].pc = "done" /\ req[r].designId = d
        /\ req[q].kind = "retry-publish" /\ req[q].pc = "done" /\ req[q].designId = d
        /\ req[r].resp.productId # 0
        /\ req[q].resp.productId # 0
        /\ req[r].resp.productId # req[q].resp.productId
        /\ ~req[r].resp.alreadyPublished /\ ~req[q].resp.alreadyPublished
        /\ designs[d].exists /\ designs[d].status = "published"
        /\ findByDesign(products, d).productId = designs[d].shopifyProductId
        /\ designs[d].shopifyProductId = productSerial

----------------------------------------------------------------------------
(* Claims on the frame of the pod routes (Spec, SpecSeq) *)

\* C36: a revise-design request that ends without an accepted provider image (both
\* generation attempts gave a fallback result: 504, or an error was thrown: 500)
\* leaves the design records and the asset list as they were
C36_FailedReviseWritesNothing ==
    [][ \A r \in Reqs :
          (/\ req[r].kind = "revise" /\ req[r].pc = "revise_image"
           /\ req'[r].pc = "done"
           /\ req'[r].resp.kind \in {"timeout504", "fatal"})
          => /\ designs' = designs
             /\ assets' = assets
             /\ req'[r].writes = 0 ]_vars

\* a revise-design of a stored design answered 504 after two generation attempts
C36_Witness ==
    \E r \in Reqs :
        /\ req[r].kind = "revise" /\ req[r].pc = "done"
        /\ req[r].resp.kind = "timeout504"
        /\ req[r].calls.image = 2
        /\ designs[req[r].designId].exists
        /\ designs[req[r].designId].revisionCount = 0
        /\ Len(assets) = 1

\* the routes that take a design id
DesignRoutes == {"mockup", "revise", "finalize", "retry-publish", "delete", "assets"}

\* C37: a generate-mockup, revise-design, finalize-product, retry-publish, delete
\* or asset-listing request on a design of another shop than the session's is
\* answered "Design not found", makes no provider call and leaves every design,
\* asset and product record as it was
C37_TenantIsolation ==
    [][ \A r \in Reqs, k \in DesignRoutes :
          (/\ Starts(k, r)
           /\ designs[req'[r].designId].exists
           /\ designs[req'[r].designId].shopDomain # req'[r].shop)
          => /\ req'[r].pc = "done"
             /\ req'[r].resp = NotFound
             /\ req'[r].calls = NoCalls
             /\ req'[r].writes = 0
             /\ designs' = designs
             /\ assets' = assets
             /\ products' = products
             /\ publishCalls' = publishCalls ]_vars

\* a delete asked for another shop's design was answered not found, and the
\* design and its asset are still stored
C37_Witness ==
    \E r \in Reqs :
        /\ req[r].kind = "delete" /\ req[r].pc = "done"
        /\ req[r].resp = NotFound
        /\ designs[req[r].designId].exists
        /\ designs[req[r].designId].shopDomain # req[r].shop
        /\ Len(assets) >= 1

----------------------------------------------------------------------------
(* Claims on the shop's data (SpecShop) *)

\* C38: once a shop/redact webhook for a shop has been handled, the store holds
\* no design, no asset, no product record and no settings entry of that shop
C38_RedactErasesShopData ==
    (lastCall.route = "shop/redact" /\ lastCall.status = 200)
    => shopRecords[lastCall.shop] = NoShopRecords

\* C39: /set-shopify-token changes a shop's stored Shopify access token only for
\* a caller who presents the configured SETUP_SECRET; a session of one shop
\* without it cannot set the token of another shop
C39_TokenSetNeedsSetupSecret ==
    (/\ lastCall.route = "set-shopify-token"
     /\ lastCall.shop \in Shops
     /\ shopRecords[lastCall.shop].shopifyAccessToken # lastCall.before)
    => /\ setupSecret # ""
       /\ lastCall.secret = setupSecret

----------------------------------------------------------------------------
(* Claims on PostgresStore (SpecPg) *)

\* C40: a read() after a write() returns the written state, and once every
\* persist started by write() has completed without error the database row
\* equals the cache, the state of the last write, in whatever order the queries
\* completed
C40_RowEqualsCacheOncePersisted ==
    /\ (lastRead # NoRead /\ lastRead.afterWrite = writeCount) => lastRead.value = cache
    /\ (/\ writeCount > 0
        /\ \A i \in 1..Len(persists) : persists[i].state = "done")
       => dbRow = cache

====
